---- MODULE Spec2Model ----
(***************************************************************************)
(* A model of chengshiwen/influx-tool: the transfer pipeline (planner,     *)
(* exporter, consistent-hash router, importer), the deletetsm and compact  *)
(* commands and the shard-key templates, as state machines.                *)
(*                                                                         *)
(* Time.  Every instant is an integer count of ticks since the Unix epoch  *)
(* (the code's UnixNano) and every duration a count of ticks; one tick is  *)
(* the grain of the model's clock, so the code's "Add(-1)" is "- 1".  An   *)
(* hour is Hour ticks.                                                     *)
(*                                                                         *)
(* Byte strings are sequences of one-character strings.                    *)
(***************************************************************************)
EXTENDS Integers, Sequences, FiniteSets, TLC

VARIABLES
    plan,       \* the planner's input and output
    rpm,        \* a target catalog and the last newImporter call on it
    sg,         \* a target catalog and the import workers opening shard groups in it
    xfer,       \* transfer runs: exporter workers, pipes, channels, import workers, targets
    routers,    \* the ConsistentHash objects: consistent, mapToIdx, cache
    calls,      \* the Get call each caller is in
    returned,   \* every <<router, key, index, cache hit>> a Get call has returned
    dt,         \* deletetsm: the segment files on disk and the run over its path arguments
    cp,         \* compact: the shard directories on disk and the run over them
    stpl,       \* a shard-key template, its parsed ShardTpl and the keys rendered from it
    tcmd,       \* transfer: the flags of a run, what validate made of them, the servers runE opened
    rel,        \* transfer: what one export goroutine and its import goroutines hold open
    opn         \* compact: openFiles, its opener goroutines and the result channel

vars == <<plan, rpm, sg, xfer, routers, calls, returned, dt, cp, stpl, tcmd, rel, opn>>

Range(s) == {s[i] : i \in DOMAIN s}

\* the value of a part of the state in a specification that does not run that part
PlanIdle == [pc |-> "off"]
RpmIdle == [pc |-> "off"]
SgIdle == [pc |-> "off"]
XferIdle == [pc |-> "off"]
HashIdle == routers = <<>> /\ calls = <<>> /\ returned = {}
DtIdle == [pc |-> "off"]
CpIdle == [pc |-> "off"]
TplIdle == [pc |-> "off"]
CmdIdle == [pc |-> "off"]
RelIdle == [pc |-> "off"]
OpnIdle == [pc |-> "off"]
ToolsIdle == dt = DtIdle /\ cp = CpIdle /\ stpl = TplIdle /\ tcmd = CmdIdle /\ rel = RelIdle /\ opn = OpnIdle

(***************************************************************************)
(* Bounds of the model.                                                    *)
(***************************************************************************)
\* latest start, in days, of a source shard group drawn for the planner
MaxTime == 8
\* most source shard groups in one planner input
MaxGroups == 3

\* most nodes of a ring (--node-total)
MaxNodes == 3
\* size of the hash space the ring's points lie in (crc32: 2^32)
HashSpace == 1021

\* math.MinInt64 / math.MaxInt64: the open ends of the requested range.
\* Only compared, never added to; any value outside the model's instants.
MinInt64 == -(2^30)
MaxInt64 == 2^30

(***************************************************************************)
(* time.Time.Truncate and meta.ShardGroupInfo                              *)
(***************************************************************************)
\* time.Hour, in ticks: a tick is half an hour, so that a duration below one hour exists
Hour == 2
Day == 24 * Hour

\* The time from 0001-01-01 (Go's zero Time) to 1970-01-01, as Go's unixToInternal
\* counts it; Truncate rounds down to a multiple of d since the zero Time, not since
\* the Unix epoch.
UnixToInternal == (1969 * 365 + 1969 \div 4 - 1969 \div 100 + 1969 \div 400) * Day

\* a truncation counted from the Unix epoch instead of Go's zero Time
Truncate_FromUnixEpoch(t, d) == IF d <= 0 THEN t ELSE t - (t % d)

Truncate(t, d) == IF d <= 0 THEN t ELSE t - ((t + UnixToInternal) % d)

\* meta.ShardGroupInfo.Overlaps(min, max): !StartTime.After(max) && EndTime.After(min)
Overlaps(g, min, max) == ~(g.StartTime > max) /\ g.EndTime > min

\* sort.Sort(meta.ShardGroupInfos(groups)): by EndTime, then by StartTime
GroupLess(a, b) ==
    IF a.EndTime = b.EndTime THEN a.StartTime < b.StartTime ELSE a.EndTime < b.EndTime

RECURSIVE SortGroups(_)
SortGroups(S) ==
    IF S = {} THEN <<>>
    ELSE LET m == CHOOSE x \in S : \A y \in S \ {x} : GroupLess(x, y)
         IN  <<m>> \o SortGroups(S \ {m})

(***************************************************************************)
(* Shard planner                                                           *)
(***************************************************************************)
\* every group ends at the end of the whole span (EndTime: end)
makeShardGroupsForDuration_EndOfSpan(min, max, sd) ==
    LET start == Truncate(min, sd)
        end   == Truncate(max, sd) + sd
        n     == (end - start) \div sd
    IN  [i \in 1..n |-> [ID |-> i - 1,
                         StartTime |-> start + (i - 1) * sd,
                         EndTime |-> end,
                         Shards |-> <<>>]]

makeShardGroupsForDuration(min, max, sd) ==
    LET start == Truncate(min, sd)
        end   == Truncate(max, sd) + sd
        n     == (end - start) \div sd
    IN  [i \in 1..n |-> [ID |-> i - 1,
                         StartTime |-> start + (i - 1) * sd,
                         EndTime |-> start + i * sd,
                         Shards |-> <<>>]]

hasShardsGroupForTimeRange(groups, min, max) ==
    \E i \in DOMAIN groups : Overlaps(groups[i], min, max)

\* the source overlap is tested on [StartTime, EndTime] (the Add(-1) forgotten)
planShardGroups_ClosedInterval(sourceShards, sd, start, end) ==
    IF Len(sourceShards) = 0 THEN <<>>
    ELSE LET min == sourceShards[1].StartTime
             max == sourceShards[Len(sourceShards)].EndTime
             groups == makeShardGroupsForDuration(min, max, sd)
             keep(g) == /\ ~(g.StartTime > end \/ g.EndTime <= start)
                        /\ hasShardsGroupForTimeRange(sourceShards, g.StartTime, g.EndTime)
         IN  SelectSeq(groups, keep)

\* a window that only touches the requested range at its last instant is skipped
\* (g.StartTime >= end)
planShardGroups_RangeOffByOne(sourceShards, sd, start, end) ==
    IF Len(sourceShards) = 0 THEN <<>>
    ELSE LET min == sourceShards[1].StartTime
             max == sourceShards[Len(sourceShards)].EndTime
             groups == makeShardGroupsForDuration(min, max, sd)
             keep(g) == /\ ~(g.StartTime >= end \/ g.EndTime <= start)
                        /\ hasShardsGroupForTimeRange(sourceShards, g.StartTime, g.EndTime - 1)
         IN  SelectSeq(groups, keep)

planShardGroups(sourceShards, sd, start, end) ==
    IF Len(sourceShards) = 0 THEN <<>>
    ELSE LET min == sourceShards[1].StartTime
             max == sourceShards[Len(sourceShards)].EndTime
             groups == makeShardGroupsForDuration(min, max, sd)
             keep(g) == /\ ~(g.StartTime > end \/ g.EndTime <= start)
                        /\ hasShardsGroupForTimeRange(sourceShards, g.StartTime, g.EndTime - 1)
         IN  SelectSeq(groups, keep)

(***************************************************************************)
(* The catalog (meta.Client over meta.Data) of one directory, for the one  *)
(* database the transfer names.  A call answers [err, data]: the error     *)
(* ("" for nil) and the catalog after the call; a failed call commits      *)
(* nothing.                                                                *)
(***************************************************************************)
\* a nil *time.Duration or *int, and a nil *meta.RetentionPolicyInfo
NIL == -1
NilPolicy == [nil |-> TRUE]

EmptyData ==
    [Database |-> FALSE, DefaultRetentionPolicy |-> "", RetentionPolicies |-> [x \in {} |-> 0],
     MaxShardGroupID |-> 0, MaxShardID |-> 0]

\* RetentionPolicySpec.NewRetentionPolicyInfo: ReplicaN defaults to 1, Duration to 0;
\* a zero ShardGroupDuration is derived from the duration
NewRetentionPolicyInfo(spec) ==
    LET d == IF spec.Duration = NIL THEN 0 ELSE spec.Duration
    IN  [Name |-> spec.Name,
         ReplicaN |-> IF spec.ReplicaN = NIL THEN 1 ELSE spec.ReplicaN,
         Duration |-> d,
         ShardGroupDuration |->
             IF spec.ShardGroupDuration # 0 THEN spec.ShardGroupDuration
             ELSE IF d > 180 * Day \/ d = 0 THEN 7 * Day
             ELSE IF d > 2 * Day THEN Day ELSE Hour,
         ShardGroups |-> <<>>]

\* meta.Data.CreateRetentionPolicy
DataCreateRetentionPolicy(data, rpi, makeDefault) ==
    IF rpi.Name = "" THEN [err |-> "retention policy name required", data |-> data]
    ELSE IF rpi.ReplicaN < 1 THEN [err |-> "replication factor must be greater than 0", data |-> data]
    ELSE IF rpi.Duration > 0 /\ rpi.Duration < rpi.ShardGroupDuration
    THEN [err |-> "retention policy duration must be greater than the shard duration", data |-> data]
    ELSE IF ~data.Database THEN [err |-> "database not found", data |-> data]
    ELSE IF rpi.Name \in DOMAIN data.RetentionPolicies
    THEN LET rp == data.RetentionPolicies[rpi.Name]
         IN  IF \/ rp.ReplicaN # rpi.ReplicaN
                \/ rp.Duration # rpi.Duration
                \/ rp.ShardGroupDuration # rpi.ShardGroupDuration
             THEN [err |-> "retention policy already exists", data |-> data]
             ELSE IF makeDefault /\ data.DefaultRetentionPolicy # rpi.Name
             THEN [err |-> "retention policy conflicts with an existing policy", data |-> data]
             ELSE [err |-> "", data |-> data]
    ELSE [err |-> "",
          data |-> [data EXCEPT
              !.RetentionPolicies = [n \in (DOMAIN @) \cup {rpi.Name} |->
                                        IF n = rpi.Name THEN rpi ELSE @[n]],
              !.DefaultRetentionPolicy = IF makeDefault THEN rpi.Name ELSE @]]

DurationTooLow(spec) ==
    spec.Duration # NIL /\ spec.Duration < Hour /\ spec.Duration # 0

\* meta.Client.CreateRetentionPolicy(db, spec, makeDefault)
ClientCreateRetentionPolicy(data, spec, makeDefault) ==
    IF DurationTooLow(spec)
    THEN [err |-> "retention policy duration must be at least 1h0m0s", data |-> data]
    ELSE DataCreateRetentionPolicy(data, NewRetentionPolicyInfo(spec), makeDefault)

\* meta.Client.CreateDatabaseWithRetentionPolicy(db, spec)
ClientCreateDatabaseWithRetentionPolicy(data, spec) ==
    IF DurationTooLow(spec)
    THEN [err |-> "retention policy duration must be at least 1h0m0s", data |-> data]
    ELSE LET r == DataCreateRetentionPolicy([data EXCEPT !.Database = TRUE],
                                            NewRetentionPolicyInfo(spec), TRUE)
         IN  IF r.err # "" THEN [err |-> r.err, data |-> data] ELSE r

\* meta.Client.CreateDatabase(db): the database with the default policy autogen
ClientCreateDatabase(data) ==
    IF data.Database THEN [err |-> "", data |-> data]
    ELSE DataCreateRetentionPolicy(
             [data EXCEPT !.Database = TRUE],
             NewRetentionPolicyInfo([Name |-> "autogen", ReplicaN |-> NIL, Duration |-> NIL,
                                     ShardGroupDuration |-> 0]), TRUE)

\* meta.Client.RetentionPolicy(db, name): the policy, or nil
ClientRetentionPolicy(data, name) ==
    IF data.Database /\ name \in DOMAIN data.RetentionPolicies
    THEN data.RetentionPolicies[name] ELSE NilPolicy

(***************************************************************************)
(* newImporter and importer.createDatabase                                 *)
(***************************************************************************)
\* the duration goes into the spec whatever it is
NewImporterSpec_AnyDuration(rp, sd, d) ==
    [Name |-> rp, ShardGroupDuration |-> sd, ReplicaN |-> NIL, Duration |-> d]

\* rps := &meta.RetentionPolicySpec{...}; if d >= time.Hour { rps.Duration = &d }
NewImporterSpec(rp, sd, d) ==
    [Name |-> rp, ShardGroupDuration |-> sd, ReplicaN |-> NIL,
     Duration |-> IF d >= Hour THEN d ELSE NIL]

\* meta.DatabaseInfo.RetentionPolicy(name): the policy of that name, the default policy
\* for the empty name, or nil
DatabaseInfoRetentionPolicy(dbInfo, name) ==
    LET n == IF name = "" THEN dbInfo.DefaultRetentionPolicy ELSE name
    IN  IF n \in DOMAIN dbInfo.RetentionPolicies THEN dbInfo.RetentionPolicies[n] ELSE NilPolicy

createDatabaseWithRetentionPolicy(data, rp) ==
    LET r == IF rp.Name = "" THEN ClientCreateDatabase(data)
             ELSE ClientCreateDatabaseWithRetentionPolicy(data, rp)
    IN  [err |-> r.err, data |-> r.data,
         rpi |-> IF r.err = "" THEN DatabaseInfoRetentionPolicy(r.data, rp.Name) ELSE NilPolicy]

\* importer.createDatabase: answers [err, data, rpi], rpi the importer's i.rpi
createDatabase(data, rp) ==
    IF ~data.Database THEN createDatabaseWithRetentionPolicy(data, rp)
    ELSE LET rpi == ClientRetentionPolicy(data, rp.Name)
             nonmatchingRp ==
                 /\ rpi # NilPolicy
                 /\ \/ (rp.Duration # NIL /\ rpi.Duration # rp.Duration)
                    \/ (rp.ReplicaN # NIL /\ rpi.ReplicaN # rp.ReplicaN)
                    \/ rpi.ShardGroupDuration # rp.ShardGroupDuration
         IN  IF nonmatchingRp
             THEN [err |-> "retention policy already exists with different parameters",
                   data |-> data, rpi |-> NilPolicy]
             ELSE LET r == ClientCreateRetentionPolicy(data, rp, FALSE)
                  IN  IF r.err # "" THEN [err |-> r.err, data |-> data, rpi |-> NilPolicy]
                      ELSE [err |-> "", data |-> r.data,
                            rpi |-> ClientRetentionPolicy(r.data, rp.Name)]

\* newImporter up to the opening of the series file
newImporter(data, rp, sd, d) == createDatabase(data, NewImporterSpec(rp, sd, d))

(***************************************************************************)
(* newImporter as a state machine: transfer runs, each with its own flags, *)
(* open an importer on one target directory.                               *)
(***************************************************************************)
RpNames == {"autogen", "rp1", ""}
\* --shard-duration: 1h, 24h and the default 168h
RpShardDurations == {Hour, Day, 7 * Day}
\* --duration: the default 0, 30m, 1h, 24h and 168h
RpDurations == {0, 1, Hour, Day, 7 * Day}

\* a target directory as transfer may find it: empty, a database without the policy,
\* or a database whose policy autogen another tool created with two replicas
InitialTargets ==
    {EmptyData,
     ClientCreateDatabaseWithRetentionPolicy(EmptyData,
         [Name |-> "other", ReplicaN |-> NIL, Duration |-> NIL, ShardGroupDuration |-> Day]).data,
     ClientCreateDatabaseWithRetentionPolicy(EmptyData,
         [Name |-> "autogen", ReplicaN |-> 2, Duration |-> NIL, ShardGroupDuration |-> Day]).data}

InitRP ==
    /\ \E data \in InitialTargets : rpm = [pc |-> "idle", data |-> data]
    /\ plan = PlanIdle
    /\ sg = SgIdle
    /\ xfer = XferIdle
    /\ HashIdle
    /\ ToolsIdle

\* imp, err := newImporter(importServer, cmd.database, cmd.retentionPolicy,
\*                         cmd.shardDuration, cmd.duration, ...)
NewImporter(rp, sd, d) ==
    LET r == newImporter(rpm.data, rp, sd, d)
    IN  /\ rpm' = [pc |-> "called", data |-> r.data, before |-> rpm.data,
                   rp |-> rp, sd |-> sd, d |-> d, err |-> r.err, rpi |-> r.rpi]
        /\ UNCHANGED <<plan, sg, xfer, routers, calls, returned, dt, cp, stpl, tcmd, rel, opn>>

NextRP == \E rp \in RpNames, sd \in RpShardDurations, d \in RpDurations : NewImporter(rp, sd, d)

SpecRP == InitRP /\ [][NextRP]_vars

RpCalled == rpm.pc = "called" /\ rpm.rp # ""
\* the policy of the requested name before and after the call
RpBefore == ClientRetentionPolicy(rpm.before, rpm.rp)
RpAfter == ClientRetentionPolicy(rpm.data, rpm.rp)
\* the existing policy differs in what the request specifies (it never specifies replicaN)
RpMismatch ==
    /\ RpBefore # NilPolicy
    /\ \/ RpBefore.ShardGroupDuration # rpm.sd
       \/ (rpm.d >= Hour /\ RpBefore.Duration # rpm.d)

\* C10 as stated: newImporter creates the database and the retention policy when
\* absent (here: when the catalog accepts the durations); on an existing policy with a
\* different shardGroupDuration, or a different duration while a duration >= 1h was
\* requested, it fails and leaves the catalog as it was; a requested duration below 1h
\* is not stored, and not compared: an existing policy with the requested
\* shardGroupDuration is accepted whatever its duration.
C10_RetentionPolicyMatch_AsStated ==
    RpCalled =>
        /\ (RpBefore = NilPolicy /\ ~(rpm.d >= Hour /\ rpm.d < rpm.sd)) =>
               /\ rpm.err = ""
               /\ rpm.data.Database
               /\ RpAfter # NilPolicy
               /\ RpAfter.ShardGroupDuration = rpm.sd
               /\ RpAfter.Duration = (IF rpm.d >= Hour THEN rpm.d ELSE 0)
               /\ rpm.rpi = RpAfter
        /\ RpMismatch => (rpm.err # "" /\ rpm.data = rpm.before)
        /\ (RpBefore # NilPolicy /\ rpm.d < Hour /\ RpBefore.ShardGroupDuration = rpm.sd) =>
               (rpm.err = "" /\ rpm.data = rpm.before /\ rpm.rpi = RpBefore)


(***************************************************************************)
(* Shard groups of the catalog, and importWorker.StartShardGroup           *)
(***************************************************************************)
\* meta.Client.ShardGroupsByTimeRange(db, rp, tmin, tmax), in catalog order
ShardGroupsByTimeRange(data, rp, tmin, tmax) ==
    SelectSeq(data.RetentionPolicies[rp].ShardGroups, LAMBDA g : Overlaps(g, tmin, tmax))

\* meta.Client.CreateShardGroup(db, rp, timestamp): the group holding the timestamp,
\* made with one shard when the policy has none; answers [data, sgi]
ClientCreateShardGroup(data, rp, timestamp) ==
    LET rpi == data.RetentionPolicies[rp]
        holding == SelectSeq(rpi.ShardGroups,
                             LAMBDA g : ~(timestamp < g.StartTime) /\ timestamp < g.EndTime)
        StartTime == Truncate(timestamp, rpi.ShardGroupDuration)
        sgi == [ID |-> data.MaxShardGroupID + 1,
                StartTime |-> StartTime,
                EndTime |-> StartTime + rpi.ShardGroupDuration,
                Shards |-> <<[ID |-> data.MaxShardID + 1]>>]
    IN  IF Len(holding) > 0 THEN [data |-> data, sgi |-> holding[1]]
        ELSE [data |-> [data EXCEPT
                           !.MaxShardGroupID = @ + 1,
                           !.MaxShardID = @ + 1,
                           !.RetentionPolicies[rp].ShardGroups = SortGroups(Range(@) \cup {sgi})],
              sgi |-> sgi]

\* the lookup includes the instant end
StartShardGroupLookup_ClosedEnd(data, rp, start, end) ==
    ShardGroupsByTimeRange(data, rp, start, end)

\* existingSg, err := i.MetaClient.ShardGroupsByTimeRange(i.db, i.rpi.Name,
\*                                       time.Unix(0, start), time.Unix(0, end-1))
StartShardGroupLookup(data, rp, start, end) ==
    ShardGroupsByTimeRange(data, rp, start, end - 1)

\* the rest of StartShardGroup: answers [err, data, shardID]
StartShardGroupOpen(data, rp, existingSg, start, end) ==
    IF Len(existingSg) > 0
    THEN LET sgi == existingSg[1]
         IN  IF Len(sgi.Shards) > 1
             THEN [err |-> "multiple shards for the same owner", data |-> data, shardID |-> 0]
             ELSE [err |-> "", data |-> data, shardID |-> sgi.Shards[1].ID]
    ELSE LET r == ClientCreateShardGroup(data, rp, start)
         IN  [err |-> "", data |-> r.data, shardID |-> r.sgi.Shards[1].ID]

(***************************************************************************)
(* Bucket imports as a state machine: transfer runs, one after the other,  *)
(* into one node's directory; in a run the node gets one bucket per target *)
(* window and imports each in a goroutine of its own.                      *)
(***************************************************************************)
MaxRuns == 2
MaxWindows == 3

SgRp == "autogen"
SgShardDurations == {Day, 7 * Day}
SgWindows(sd) == {Truncate(k * sd, sd) : k \in 0..MaxWindows}

\* a catalog written by a cluster: the first shard group has a second shard
WithSecondShard(data, rp) ==
    [data EXCEPT !.MaxShardID = @ + 1,
                 !.RetentionPolicies[rp].ShardGroups[1].Shards =
                     Append(@, [ID |-> data.MaxShardID + 1])]

\* the node's directory as a run may find it: new, or with a shard group for one window
SgTargets(sd) ==
    LET new == newImporter(EmptyData, SgRp, sd, 0).data
        one == ClientCreateShardGroup(new, SgRp, CHOOSE w \in SgWindows(sd) : w > 0).data
    IN  {new, one, WithSecondShard(one, SgRp)}

InitSG ==
    /\ \E sd \in SgShardDurations : \E data \in SgTargets(sd) :
          sg = [pc |-> "on", sd |-> sd, data |-> data, run |-> 0, workers |-> <<>>]
    /\ plan = PlanIdle
    /\ rpm = RpmIdle
    /\ xfer = XferIdle
    /\ HashIdle
    /\ ToolsIdle

SgFinished(w) == sg.workers[w].pc \in {"done", "failed"}

\* a run starts when the one before is over: its buckets reach the node
StartRun(W) ==
    /\ sg.pc = "on"
    /\ sg.run < MaxRuns
    /\ \A w \in DOMAIN sg.workers : SgFinished(w)
    /\ sg' = [sg EXCEPT !.run = @ + 1,
                        !.workers = [w \in W |-> [pc |-> "start", start |-> w, end |-> w + sg.sd,
                                                  existingSg |-> <<>>, shardID |-> 0]]]
    /\ UNCHANGED <<plan, rpm, xfer, routers, calls, returned, dt, cp, stpl, tcmd, rel, opn>>

\* StartShardGroup, the lookup
SgLookup(w) ==
    /\ sg.pc = "on"
    /\ w \in DOMAIN sg.workers
    /\ sg.workers[w].pc = "start"
    /\ sg' = [sg EXCEPT !.workers[w].pc = "found",
                        !.workers[w].existingSg =
                            StartShardGroupLookup(sg.data, SgRp, sg.workers[w].start, sg.workers[w].end)]
    /\ UNCHANGED <<plan, rpm, xfer, routers, calls, returned, dt, cp, stpl, tcmd, rel, opn>>

\* StartShardGroup, from the lookup's answer to its return
SgOpen(w) ==
    /\ sg.pc = "on"
    /\ w \in DOMAIN sg.workers
    /\ sg.workers[w].pc = "found"
    /\ LET r == StartShardGroupOpen(sg.data, SgRp, sg.workers[w].existingSg,
                                    sg.workers[w].start, sg.workers[w].end)
       IN  sg' = [sg EXCEPT !.data = r.data,
                            !.workers[w].pc = IF r.err = "" THEN "open" ELSE "failed",
                            !.workers[w].shardID = r.shardID]
    /\ UNCHANGED <<plan, rpm, xfer, routers, calls, returned, dt, cp, stpl, tcmd, rel, opn>>

\* ImportShard ends: CloseShardGroup
SgClose(w) ==
    /\ sg.pc = "on"
    /\ w \in DOMAIN sg.workers
    /\ sg.workers[w].pc = "open"
    /\ sg' = [sg EXCEPT !.workers[w].pc = "done"]
    /\ UNCHANGED <<plan, rpm, xfer, routers, calls, returned, dt, cp, stpl, tcmd, rel, opn>>

NextSG ==
    \/ \E W \in {X \in SUBSET SgWindows(sg.sd) : Cardinality(X) \in {1, 2}} : StartRun(W)
    \/ \E w \in SgWindows(sg.sd) : SgLookup(w)
    \/ \E w \in SgWindows(sg.sd) : SgOpen(w)
    \/ \E w \in SgWindows(sg.sd) : SgClose(w)

SpecSG == InitSG /\ [][NextSG]_vars

SgGroups(data) == data.RetentionPolicies[SgRp].ShardGroups
\* the groups of the catalog that share an instant with the bucket [start, end)
SgOverlapping(data, start, end) ==
    SelectSeq(SgGroups(data), LAMBDA g : g.StartTime < end /\ start < g.EndTime)
\* worker w returns from StartShardGroup in this step
SgReturns(w) ==
    /\ w \in DOMAIN sg.workers
    /\ sg.workers[w].pc = "found"
    /\ sg'.workers[w].pc # "found"
OneGroupPerWindow ==
    \A i, j \in 1..Len(SgGroups(sg.data)) :
        i # j => Truncate(SgGroups(sg.data)[i].StartTime, sg.sd)
                     # Truncate(SgGroups(sg.data)[j].StartTime, sg.sd)

\* C9: StartShardGroup for a bucket [start, end) reuses the shard of an existing group
\* that overlaps [start, end) and creates no group; it fails, changing nothing, when
\* that group has more than one shard; when no group overlaps it creates exactly one
\* group, starting at start, and uses its shard.  At all times the catalog holds at
\* most one shard group per target window.
C9_CreateOrReuse ==
    /\ []OneGroupPerWindow
    /\ [][\A w \in SgWindows(sg.sd) : SgReturns(w) =>
            LET old == SgOverlapping(sg.data, w, w + sg.sd)
                me == sg'.workers[w]
            IN  /\ (Len(old) > 0 /\ Len(old[1].Shards) > 1) =>
                       (me.pc = "failed" /\ sg'.data = sg.data)
                /\ (Len(old) > 0 /\ Len(old[1].Shards) = 1) =>
                       /\ me.pc = "open"
                       /\ me.shardID = old[1].Shards[1].ID
                       /\ sg'.data = sg.data
                /\ Len(old) = 0 =>
                       /\ me.pc = "open"
                       /\ Len(SgGroups(sg'.data)) = Len(SgGroups(sg.data)) + 1
                       /\ \E g \in Range(SgGroups(sg'.data)) \ Range(SgGroups(sg.data)) :
                              /\ g.StartTime = w
                              /\ g.EndTime = w + sg.sd
                              /\ g.Shards = <<[ID |-> me.shardID]>>
                              /\ \A h \in Range(SgGroups(sg.data)) :
                                     h.ID # g.ID /\ h.Shards[1].ID # me.shardID]_vars

\* in a second run one worker has reused a shard group and another has created one
C9_Witness ==
    /\ sg.pc = "on"
    /\ sg.run = 2
    /\ \E w1, w2 \in DOMAIN sg.workers :
          /\ sg.workers[w1].pc = "open"
          /\ sg.workers[w2].pc = "open"
          /\ sg.workers[w1].existingSg # <<>>
          /\ sg.workers[w2].existingSg = <<>>
    /\ Len(SgGroups(sg.data)) >= 3

(***************************************************************************)
(* Byte strings, strconv.Itoa, strings.ReplaceAll                          *)
(***************************************************************************)
Chars == <<"0", "1", "2", "3", "4", "5", "6", "7", "8", "9", "|", "%", ",", "=", " ", "-",
           "a", "b", "c", "d", "e", "f", "g", "h", "i", "j", "k", "l", "m",
           "n", "o", "p", "q", "r", "s", "t", "u", "v", "w", "x", "y", "z">>

CharCode(c) == CHOOSE i \in DOMAIN Chars : Chars[i] = c

RECURSIVE Itoa(_)
Itoa(n) == IF n < 10 THEN <<Chars[n + 1]>> ELSE Itoa(n \div 10) \o <<Chars[(n % 10) + 1]>>

HasPrefixAt(s, i, v) ==
    /\ i + Len(v) - 1 <= Len(s)
    /\ \A k \in 1..Len(v) : s[i + k - 1] = v[k]

Contains(s, v) == \E i \in 1..Len(s) : HasPrefixAt(s, i, v)

RECURSIVE ReplaceAllFrom(_, _, _, _)
ReplaceAllFrom(s, i, old, new) ==
    IF i > Len(s) THEN <<>>
    ELSE IF HasPrefixAt(s, i, old) THEN new \o ReplaceAllFrom(s, i + Len(old), old, new)
    ELSE <<s[i]>> \o ReplaceAllFrom(s, i + 1, old, new)

ReplaceAll(s, old, new) == ReplaceAllFrom(s, 1, old, new)

(***************************************************************************)
(* The consistent-hash ring (stathat.com/c/consistent) as the router uses  *)
(* it: Add puts NumberOfReplicas points per element on the circle, Get     *)
(* returns the element of the first point above the key's hash, wrapping.  *)
(***************************************************************************)
HashKeyIdx == <<"i", "d", "x">>
HashKeyExi == <<"e", "x", "i">>
HashKeyVarIdx == <<"%", "i", "d", "x">>

NumberOfReplicas == 256

\* crc32.ChecksumIEEE, as a polynomial hash into the model's hash space
RECURSIVE hashKeyFrom(_, _)
hashKeyFrom(s, h) ==
    IF s = <<>> THEN h ELSE hashKeyFrom(Tail(s), (h * 31 + CharCode(Head(s))) % HashSpace)

hashKey(s) == hashKeyFrom(s, 7)

eltKey(elt, idx) == Itoa(idx) \o elt

ConsistentAdd(circle, elt) ==
    LET pts == {hashKey(eltKey(elt, i)) : i \in 0..(NumberOfReplicas - 1)}
    IN  [h \in (DOMAIN circle) \cup pts |-> IF h \in pts THEN elt ELSE circle[h]]

\* the key's hash, the points above it and the point chosen are bound by quantifiers, so
\* that each is computed once
ConsistentGet(circle, name) ==
    IF DOMAIN circle = {} THEN <<>>
    ELSE CHOOSE elt \in Range(circle) :
             \E key \in {hashKey(name)} :
             \E above \in {{p \in DOMAIN circle : p > key}} :
             \E S \in {IF above = {} THEN DOMAIN circle ELSE above} :
             \E least \in S : (\A q \in S : least <= q) /\ elt = circle[least]

\* only the first %idx of a template is replaced
NodeKey_FirstOnly(hashKeyScheme, idx) ==
    IF hashKeyScheme = HashKeyExi THEN <<"|">> \o Itoa(idx)
    ELSE IF hashKeyScheme = HashKeyIdx THEN Itoa(idx)
    ELSE LET at == CHOOSE i \in 1..Len(hashKeyScheme) :
                      /\ HasPrefixAt(hashKeyScheme, i, HashKeyVarIdx)
                      /\ \A k \in 1..(i - 1) : ~HasPrefixAt(hashKeyScheme, k, HashKeyVarIdx)
         IN  SubSeq(hashKeyScheme, 1, at - 1) \o Itoa(idx)
                 \o SubSeq(hashKeyScheme, at + Len(HashKeyVarIdx), Len(hashKeyScheme))

\* the ring entry of node idx under a hash-key scheme
NodeKey(hashKeyScheme, idx) ==
    IF hashKeyScheme = HashKeyExi THEN <<"|">> \o Itoa(idx)
    ELSE IF hashKeyScheme = HashKeyIdx THEN Itoa(idx)
    ELSE ReplaceAll(hashKeyScheme, HashKeyVarIdx, Itoa(idx))

RECURSIVE AddNodes(_, _, _, _)
AddNodes(ch, idx, nodeTotal, hashKeyScheme) ==
    IF idx >= nodeTotal THEN ch
    ELSE LET key == NodeKey(hashKeyScheme, idx)
         IN  AddNodes([ch EXCEPT !.consistent = ConsistentAdd(ch.consistent, key),
                                 !.mapToIdx = [k \in (DOMAIN ch.mapToIdx) \cup {key} |->
                                                  IF k = key THEN idx ELSE ch.mapToIdx[k]]],
                      idx + 1, nodeTotal, hashKeyScheme)

EmptyMap == [x \in {} |-> 0]

\* the nodes are numbered from 1
NewConsistentHash_OneBased(nodeTotal, hashKeyScheme) ==
    AddNodes([consistent |-> EmptyMap, mapToIdx |-> EmptyMap, cache |-> EmptyMap],
             1, nodeTotal + 1, hashKeyScheme)

NewConsistentHash(nodeTotal, hashKeyScheme) ==
    AddNodes([consistent |-> EmptyMap, mapToIdx |-> EmptyMap, cache |-> EmptyMap],
             0, nodeTotal, hashKeyScheme)

\* ch.cache.Load(key), answering whatever entry the cache holds
CacheLoad_AnyEntry(cache, key) ==
    IF DOMAIN cache # {}
    THEN [ok |-> TRUE, idx |-> cache[CHOOSE k \in DOMAIN cache : TRUE]]
    ELSE [ok |-> FALSE, idx |-> 0]

\* ch.cache.Load(key)
CacheLoad(cache, key) ==
    IF key \in DOMAIN cache THEN [ok |-> TRUE, idx |-> cache[key]] ELSE [ok |-> FALSE, idx |-> 0]

\* a Store that writes idx over every entry of the map
CacheStore_EveryEntry(cache, key, idx) ==
    [k \in (DOMAIN cache) \cup {key} |-> idx]

\* ch.cache.Store(key, idx)
CacheStore(cache, key, idx) ==
    [k \in (DOMAIN cache) \cup {key} |-> IF k = key THEN idx ELSE cache[k]]

\* str, _ := ch.consistent.Get(key); idx := ch.mapToIdx[str]
RingLookup(ch, key) ==
    LET str == ConsistentGet(ch.consistent, key)
    IN  IF str \in DOMAIN ch.mapToIdx THEN ch.mapToIdx[str] ELSE 0

\* the key is the database alone
GetKey_DatabaseOnly(db, meas) == db

\* the key without the comma
GetKey_NoComma(db, meas) == db \o meas

\* hash.GetKey(db, meas)
GetKey(db, meas) == db \o <<",">> \o meas

(***************************************************************************)
(* The router as a state machine: two ConsistentHash objects (two          *)
(* processes) are built and then asked by concurrent callers.  A Get call  *)
(* is two steps: the cache Load (with the ring lookup on a miss) and the   *)
(* cache Store.                                                            *)
(***************************************************************************)
Routers == {1, 2}
Callers == {1, 2}

Database == <<"d", "b">>

\* the hash-key schemes validate accepts: idx, exi and templates containing %idx
Schemes == {HashKeyIdx, HashKeyExi, <<"n", "%", "i", "d", "x">>,
            HashKeyVarIdx \o <<"-">> \o HashKeyVarIdx}

\* measurement names that reach the router
Measurements == {<<"c", "p", "u">>, <<"m", "e", "m">>}

RoutingKeys == {GetKey(Database, m) : m \in Measurements}

\* the keys Get is called with: the exporter's keys and the empty key
GetKeys == RoutingKeys \cup {<<>>}

NoRouter == [made |-> FALSE]
IdleCall == [pc |-> "idle"]


InitHash ==
    /\ \E n \in 1..MaxNodes, scheme \in Schemes :
          routers = [r \in Routers |-> [made |-> FALSE, nodeTotal |-> n, hashKey |-> scheme]]
    /\ calls = [c \in Callers |-> IdleCall]
    /\ returned = {}
    /\ plan = PlanIdle
    /\ rpm = RpmIdle
    /\ sg = SgIdle
    /\ xfer = XferIdle
    /\ ToolsIdle

\* ch := hash.NewConsistentHash(nodeTotal, hashKey)
NewRouter(r) ==
    /\ ~routers[r].made
    /\ routers' = [routers EXCEPT ![r] =
          [made |-> TRUE, nodeTotal |-> @.nodeTotal, hashKey |-> @.hashKey,
           ch |-> NewConsistentHash(@.nodeTotal, @.hashKey)]]
    /\ UNCHANGED <<calls, returned>>

\* ConsistentHash.Get up to its return on a cache hit, or up to the ring lookup on a miss
GetLoad(c, r, key) ==
    /\ calls[c].pc = "idle"
    /\ routers[r].made
    /\ LET hit == CacheLoad(routers[r].ch.cache, key)
       IN  IF hit.ok
           THEN /\ returned' = returned \cup {<<r, key, hit.idx, TRUE>>}
                /\ UNCHANGED calls
           ELSE /\ calls' = [calls EXCEPT ![c] =
                      [pc |-> "store", r |-> r, key |-> key,
                       idx |-> RingLookup(routers[r].ch, key)]]
                /\ UNCHANGED returned
    /\ UNCHANGED routers

\* ch.cache.Store(key, idx); return idx
GetStore(c) ==
    /\ calls[c].pc = "store"
    /\ routers' = [routers EXCEPT ![calls[c].r].ch.cache =
                      CacheStore(@, calls[c].key, calls[c].idx)]
    /\ returned' = returned \cup {<<calls[c].r, calls[c].key, calls[c].idx, FALSE>>}
    /\ calls' = [calls EXCEPT ![c] = IdleCall]

NextHash ==
    \/ \E r \in Routers : NewRouter(r) /\ UNCHANGED <<plan, rpm, sg, xfer, dt, cp, stpl, tcmd, rel, opn>>
    \/ \E c \in Callers, r \in Routers, key \in RoutingKeys :
          GetLoad(c, r, key) /\ UNCHANGED <<plan, rpm, sg, xfer, dt, cp, stpl, tcmd, rel, opn>>
    \/ \E c \in Callers : GetStore(c) /\ UNCHANGED <<plan, rpm, sg, xfer, dt, cp, stpl, tcmd, rel, opn>>

SpecHash == InitHash /\ [][NextHash]_vars

\* C3: two routers built by NewConsistentHash from the same (N, scheme) return the same
\* node index for every routing key; every Get on one router with the same key returns the
\* same index whatever Get calls happen in between; a cache entry is what the ring lookup
\* of its key returns.
C3_RoutingDeterminism ==
    /\ \A x, y \in returned :
          ( /\ x[2] = y[2]
            /\ routers[x[1]].nodeTotal = routers[y[1]].nodeTotal
            /\ routers[x[1]].hashKey = routers[y[1]].hashKey ) => x[3] = y[3]
    /\ \A r \in Routers :
          routers[r].made =>
              \A k \in DOMAIN routers[r].ch.cache :
                  routers[r].ch.cache[k] = RingLookup(routers[r].ch, k)

\* both routers answered one key, one of them from its cache after a Get of another key
\* that routes to another node
C3_Witness ==
    \E x, y, z \in returned :
        /\ x[1] # y[1] /\ x[2] = y[2]
        /\ x[4] /\ ~y[4]
        /\ z[1] = x[1] /\ z[2] # x[2] /\ z[3] # x[3]

(***************************************************************************)
(* The planner as a state machine: Init draws a source catalog, a shard    *)
(* duration and a requested range; PlanShardGroups applies the planner.    *)
(***************************************************************************)
\* shard durations: 24h, 48h and the default 168h
SdValues == {Day, 2 * Day, 7 * Day}

\* the windows a source catalog may hold: aligned as the catalog aligns them
SrcWindows ==
    {[StartTime |-> s, EndTime |-> s + d] :
        <<s, d>> \in {x \in {k * Day : k \in 0..MaxTime} \X SdValues :
                           Truncate(x[1], x[2]) = x[1]}}

\* a source catalog: its shard groups, one shard each, as newExporter sorts them
Catalog(W) ==
    LET sorted == SortGroups(W)
    IN  [i \in DOMAIN sorted |-> [ID |-> i,
                                  StartTime |-> sorted[i].StartTime,
                                  EndTime |-> sorted[i].EndTime,
                                  Shards |-> <<i>>]]

SrcCatalogs == {Catalog(W) : W \in {X \in SUBSET SrcWindows : Cardinality(X) <= MaxGroups}}

\* the requested ranges validate accepts: the default and three bounded ones
Ranges == {<<MinInt64, MaxInt64>>, <<MinInt64, 4 * Day>>, <<5 * Day, MaxInt64>>,
           <<3 * Day, 6 * Day + 1>>}

InitPlan ==
    /\ HashIdle
    /\ rpm = RpmIdle
    /\ sg = SgIdle
    /\ xfer = XferIdle
    /\ \E src \in SrcCatalogs, sd \in SdValues, r \in Ranges :
        plan = [pc |-> "input", sourceShards |-> src, sd |-> sd,
                start |-> r[1], end |-> r[2], target |-> <<>>]
    /\ ToolsIdle

PlanShardGroups ==
    /\ UNCHANGED <<rpm, sg, xfer, routers, calls, returned, dt, cp, stpl, tcmd, rel, opn>>
    /\ plan.pc = "input"
    /\ plan' = [plan EXCEPT !.pc = "planned",
                            !.target = planShardGroups(plan.sourceShards, plan.sd,
                                                       plan.start, plan.end)]

NextPlan == PlanShardGroups

SpecPlan == InitPlan /\ [][NextPlan]_vars

(***************************************************************************)
(* Planner claims                                                          *)
(***************************************************************************)
Planned == plan.pc = "planned"

\* the candidate windows of the planned input
PlanCandidates ==
    makeShardGroupsForDuration(plan.sourceShards[1].StartTime,
                               plan.sourceShards[Len(plan.sourceShards)].EndTime, plan.sd)

\* two half-open intervals [a1, a2) and [b1, b2) share an instant
HalfOpenOverlap(a1, a2, b1, b2) == a1 < b2 /\ b1 < a2

SelectedByPlanner(g) ==
    /\ g.StartTime <= plan.end
    /\ g.EndTime > plan.start
    /\ \E i \in DOMAIN plan.sourceShards :
          HalfOpenOverlap(plan.sourceShards[i].StartTime, plan.sourceShards[i].EndTime,
                          g.StartTime, g.EndTime)

\* C5: the planner emits a candidate window g if and only if g.start <= endNanos,
\* g.end > startNanos and some source shard group overlaps [g.start, g.end); the
\* emitted windows keep the candidates' order; an empty source list yields no window.
C5_PlannerSelection ==
    Planned =>
        IF Len(plan.sourceShards) = 0 THEN plan.target = <<>>
        ELSE /\ \A i \in DOMAIN PlanCandidates :
                  (PlanCandidates[i] \in Range(plan.target)) <=> SelectedByPlanner(PlanCandidates[i])
             /\ Range(plan.target) \subseteq Range(PlanCandidates)

\* a candidate lying in a gap between two source groups, inside the requested range, is dropped
C5_Witness ==
    /\ Planned
    /\ Len(plan.target) >= 2
    /\ \E i \in DOMAIN PlanCandidates :
          /\ PlanCandidates[i] \notin Range(plan.target)
          /\ PlanCandidates[i].StartTime <= plan.end
          /\ PlanCandidates[i].EndTime > plan.start
          /\ \E j, k \in DOMAIN plan.target :
                /\ plan.target[j].EndTime <= PlanCandidates[i].StartTime
                /\ PlanCandidates[i].EndTime <= plan.target[k].StartTime

\* C6: the emitted windows are pairwise disjoint and each has length exactly sd.
C6_PlannerTiling ==
    Planned =>
        /\ \A i \in DOMAIN plan.target :
              plan.target[i].EndTime - plan.target[i].StartTime = plan.sd
        /\ \A i, j \in DOMAIN plan.target :
              i # j => ~HalfOpenOverlap(plan.target[i].StartTime, plan.target[i].EndTime,
                                        plan.target[j].StartTime, plan.target[j].EndTime)

\* three windows emitted from source groups of another duration than sd
C6_Witness ==
    /\ Planned
    /\ Len(plan.target) >= 3
    /\ \E i \in DOMAIN plan.sourceShards :
          plan.sourceShards[i].EndTime - plan.sourceShards[i].StartTime # plan.sd

\* the least multiple of sd (as Truncate aligns multiples) that is >= x
CeilToWindow(x, sd) == IF Truncate(x, sd) = x THEN x ELSE Truncate(x, sd) + sd

CoveredByTarget(t) ==
    \E i \in DOMAIN plan.target : plan.target[i].StartTime <= t /\ t < plan.target[i].EndTime

PlanMin == plan.sourceShards[1].StartTime
PlanMax == plan.sourceShards[Len(plan.sourceShards)].EndTime

\* C7 as stated: the union of the emitted windows covers
\* [ceil(min/sd)*sd - sd, ceil(max/sd)*sd), min the start of the first source group and
\* max the end of the last.
C7_CoversSpan_AsStated ==
    (Planned /\ Len(plan.sourceShards) > 0) =>
        \A t \in (CeilToWindow(PlanMin, plan.sd) - plan.sd) .. (CeilToWindow(PlanMax, plan.sd) - 1) :
            CoveredByTarget(t)

\* C7 (amended): the union of the emitted windows covers every instant of [min, max)
\* that lies in some source shard group and in the requested range [startNanos, endNanos].
C7_CoversSourceInSpan ==
    (Planned /\ Len(plan.sourceShards) > 0) =>
        \A t \in PlanMin .. (PlanMax - 1) :
            ( /\ plan.start <= t /\ t <= plan.end
              /\ \E i \in DOMAIN plan.sourceShards :
                    plan.sourceShards[i].StartTime <= t /\ t < plan.sourceShards[i].EndTime )
            => CoveredByTarget(t)

\* a bounded range cuts the plan and a source group straddles two windows
C7_Witness ==
    /\ Planned
    /\ plan.end # MaxInt64
    /\ Len(plan.target) >= 2
    /\ \E i \in DOMAIN plan.sourceShards :
          plan.sourceShards[i].EndTime - plan.sourceShards[i].StartTime > plan.sd

\* C8 as stated: every emitted window starts at k*sd, computed as floor(nanos/sd)*sd
\* on the Unix timestamp, and ends at start + sd, for every sd, the default 168h included.
C8_AlignedToUnixEpoch_AsStated ==
    Planned =>
        \A i \in DOMAIN plan.target :
            /\ plan.target[i].StartTime % plan.sd = 0
            /\ plan.target[i].EndTime = plan.target[i].StartTime + plan.sd

\* C8 (amended): every emitted window starts at a multiple of sd counted from Go's zero
\* Time (0001-01-01T00:00:00Z), i.e. start + UnixToInternal = k*sd, and ends at start + sd.
C8_AlignedToZeroTime ==
    Planned =>
        \A i \in DOMAIN plan.target :
            /\ (plan.target[i].StartTime + UnixToInternal) % plan.sd = 0
            /\ plan.target[i].EndTime = plan.target[i].StartTime + plan.sd

\* a plan with the default shard duration whose window start is no multiple of it
C8_Witness ==
    /\ Planned
    /\ plan.sd = 7 * Day
    /\ \E i \in DOMAIN plan.target : plan.target[i].StartTime % plan.sd # 0

(***************************************************************************)
(* The transfer pipeline: escape filter, shard key, source directories,    *)
(* the read of a target window                                             *)
(***************************************************************************)
\* bytes.IndexByte(s, c) != -1
HasByte(s, c) == \E i \in 1..Len(s) : s[i] = c

NeedMeasurementEscape(name) == \E c \in {",", " "} : HasByte(name, c)

\* only the tag keys are looked at
NeedTagsEscape_KeysOnly(tags) ==
    \E i \in 1..Len(tags) : \E c \in {",", " ", "="} : HasByte(tags[i].Key, c)

NeedTagsEscape(tags) ==
    \E i \in 1..Len(tags) : \E c \in {",", " ", "="} :
        HasByte(tags[i].Key, c) \/ HasByte(tags[i].Value, c)

NeedEscape(name, tags) == NeedMeasurementEscape(name) \/ NeedTagsEscape(tags)

ShardKeyVarDb == <<"%", "d", "b">>
ShardKeyVarMm == <<"%", "m", "m">>

\* NewShardTpl(tpl).GetKey(db, mm): the template with every %db and %mm replaced,
\* scanning from the left
RECURSIVE ShardTplGetKeyFrom(_, _, _, _)
ShardTplGetKeyFrom(tpl, i, db, mm) ==
    IF i > Len(tpl) THEN <<>>
    ELSE IF HasPrefixAt(tpl, i, ShardKeyVarDb) THEN db \o ShardTplGetKeyFrom(tpl, i + 3, db, mm)
    ELSE IF HasPrefixAt(tpl, i, ShardKeyVarMm) THEN mm \o ShardTplGetKeyFrom(tpl, i + 3, db, mm)
    ELSE <<tpl[i]>> \o ShardTplGetKeyFrom(tpl, i + 1, db, mm)

ShardTplGetKey(tpl, db, mm) == ShardTplGetKeyFrom(tpl, 1, db, mm)

\* the series of the source directories, in the order of their keys:
\* cpu,h=a < cpu,h=a=b < "m e" < mem
XferSeries ==
    <<[Name |-> <<"c", "p", "u">>, Tags |-> <<[Key |-> <<"h">>, Value |-> <<"a">>]>>],
      [Name |-> <<"c", "p", "u">>, Tags |-> <<[Key |-> <<"h">>, Value |-> <<"a", "=", "b">>]>>],
      [Name |-> <<"c", "p", "u">>, Tags |-> <<[Key |-> <<"h">>, Value |-> <<"b">>]>>],
      [Name |-> <<"m", " ", "e">>, Tags |-> <<>>],
      [Name |-> <<"m", "e", "m">>, Tags |-> <<>>]>>

SrcGroup(id, start, end) ==
    [ID |-> id, StartTime |-> start, EndTime |-> end, Shards |-> <<[ID |-> id]>>]
SrcPoint(shard, series, ts, value) ==
    [shard |-> shard, series |-> XferSeries[series], field |-> "v", ts |-> ts, value |-> value]

\* the source directories: the catalog's shard groups of the retention policy and the
\* points of their shards.  "gap": two 24h groups with a day between them.  "nested": a
\* 24h group inside a 72h group made after the policy's shard duration was altered.
\* "wide": a 24h group with two series of one node and a series of the other, and the
\* next 24h group with a series.
Sources ==
    [gap |->
        [groups |-> <<SrcGroup(1, 2 * Day, 3 * Day), SrcGroup(2, 4 * Day, 5 * Day)>>,
         points |-> {SrcPoint(1, 1, 2 * Day, 1), SrcPoint(1, 1, 3 * Day - 1, 2),
                     SrcPoint(1, 4, 2 * Day + 1, 3),
                     SrcPoint(2, 2, 4 * Day + 1, 4), SrcPoint(2, 5, 4 * Day + 2, 5)}],
     nested |->
        [groups |-> <<SrcGroup(1, 5 * Day, 6 * Day), SrcGroup(2, 4 * Day, 7 * Day)>>,
         points |-> {SrcPoint(2, 1, 4 * Day + 3, 6), SrcPoint(1, 5, 5 * Day + 1, 7)}],
     wide |->
        [groups |-> <<SrcGroup(1, 2 * Day, 3 * Day), SrcGroup(2, 3 * Day, 4 * Day)>>,
         points |-> {SrcPoint(1, 1, 2 * Day + 1, 8), SrcPoint(1, 3, 2 * Day + 2, 9),
                     SrcPoint(1, 5, 2 * Day + 3, 10), SrcPoint(2, 5, 3 * Day + 1, 11)}]]

\* newExporter: the source groups, sorted, and the planned target groups
newExporter(src, sd, start, end) ==
    IF Len(src.groups) > 0
    THEN LET groups == SortGroups(Range(src.groups))
         IN  [sourceGroups |-> groups, targetGroups |-> planShardGroups(groups, sd, start, end)]
    ELSE [sourceGroups |-> <<>>, targetGroups |-> <<>>]

\* exportWorker.read(min, max): the result set over the shards of the source groups
\* that overlap [min, max]: one entry per series and field with a point of timestamp
\* min <= ts <= max, in the order of the series keys
read(src, sourceGroups, min, max) ==
    LET groups == SelectSeq(sourceGroups, LAMBDA g : Overlaps(g, min, max))
        ids == {groups[i].Shards[1].ID : i \in 1..Len(groups)}
        entry(series) ==
            [Name |-> series.Name, Tags |-> series.Tags, Field |-> "v",
             Values |-> {<<p.ts, p.value>> : p \in {q \in src.points :
                            /\ q.shard \in ids
                            /\ q.series = series
                            /\ min <= q.ts /\ q.ts <= max}}]
    IN  SelectSeq([i \in 1..Len(XferSeries) |-> entry(XferSeries[i])],
                  LAMBDA e : e.Values # {})

\* ConsistentHash.Get(key) in one step: answers [idx, cache]
Get(ch, cache, key) ==
    LET hit == CacheLoad(cache, key)
    IN  IF hit.ok THEN [idx |-> hit.idx, cache |-> cache]
        ELSE LET idx == RingLookup(ch, key)
             IN  [idx |-> idx, cache |-> CacheStore(cache, key, idx)]

\* importWorker.StartShardGroup in one step: answers [err, data, shardID]
StartShardGroup(data, rp, start, end) ==
    StartShardGroupOpen(data, rp, StartShardGroupLookup(data, rp, start, end), start, end)

\* models.MakeKey(name, tags) for a series that needs no escaping: name,key=value,...
RECURSIVE MakeKey(_, _)
MakeKey(name, tags) ==
    IF tags = <<>> THEN name
    ELSE MakeKey(name \o <<",">> \o Head(tags).Key \o <<"=">> \o Head(tags).Value, Tail(tags))

(***************************************************************************)
(* Transfer runs as a state machine.  A run exports one source directory   *)
(* into the target directories <targetDir>-i of the requested nodes: one   *)
(* exporter goroutine per target group, one pipe per target group and      *)
(* node, one channel and one receiving goroutine per node, one import      *)
(* goroutine per pipe.  Runs follow each other on the same targets.        *)
(***************************************************************************)
XferNodes == {0, 1}
XferRp == "autogen"
XferShardDurations == {Day, 3 * Day}
ChanCap == 4
\* errors the environment may inflict on the export and import goroutines
MaxFaults == 1
\* the frames a pipe's buffer holds unread before a write to it blocks
PipeCap == 3
XferRing == NewConsistentHash(Cardinality(XferNodes), HashKeyIdx)

InitXfer ==
    /\ \E sd \in XferShardDurations :
          xfer = [pc |-> "idle", sd |-> sd, runs |-> 0, done |-> {}, allNodes |-> TRUE,
                  src |-> "", nodeIndex |-> {}, worker |-> 0,
                  sourceGroups |-> <<>>, targetGroups |-> <<>>, cache |-> EmptyMap,
                  exp |-> <<>>, pipes |-> EmptyMap, chans |-> EmptyMap, sent |-> {},
                  faults |-> 0, errors |-> {}, exit |-> "", panic |-> "",
                  closes |-> EmptyMap, nodes |-> EmptyMap,
                  targets |-> [n \in XferNodes |-> [data |-> EmptyData, shards |-> EmptyMap]]]
    /\ plan = PlanIdle
    /\ rpm = RpmIdle
    /\ sg = SgIdle
    /\ HashIdle
    /\ ToolsIdle

\* command.runE up to the start of the goroutines of command.transfer; the operator
\* starts no further run once a worker of an earlier run has failed
TransferStart(name, nodeIndex, worker) ==
    /\ xfer.pc = "idle"
    /\ xfer.runs < MaxRuns
    /\ xfer.faults = 0
    /\ name \notin xfer.done
    /\ LET e == newExporter(Sources[name], xfer.sd, MinInt64, MaxInt64)
           imps == [n \in nodeIndex |-> newImporter(xfer.targets[n].data, XferRp, xfer.sd, 0)]
           targets == [n \in XferNodes |->
                          IF n \in nodeIndex THEN [xfer.targets[n] EXCEPT !.data = imps[n].data]
                          ELSE xfer.targets[n]]
       IN  IF \E n \in nodeIndex : imps[n].err # ""
           THEN xfer' = [xfer EXCEPT !.runs = @ + 1, !.targets = targets]
           ELSE xfer' = [xfer EXCEPT
                    !.pc = "run", !.runs = @ + 1, !.src = name,
                    !.errors = {}, !.exit = "", !.panic = "",
                    !.closes = [n \in nodeIndex |-> 0],
                    !.nodes = [n \in nodeIndex |-> "recv"],
                    !.nodeIndex = nodeIndex, !.worker = worker,
                    !.allNodes = @ /\ nodeIndex = XferNodes,
                    !.sourceGroups = e.sourceGroups, !.targetGroups = e.targetGroups,
                    !.targets = targets,
                    !.exp = [g \in 1..Len(e.targetGroups) |->
                                [pc |-> "wait", rs |-> <<>>, bws |-> {}, err |-> ""]],
                    !.chans = [n \in nodeIndex |-> <<>>]]
    /\ UNCHANGED <<plan, rpm, sg, routers, calls, returned, dt, cp, stpl, tcmd, rel, opn>>

\* the limit channel never makes a goroutine wait
SlotFree_Unbounded(worker, busy) == TRUE

\* if worker > 0 { limit <- struct{}{} } on a channel of capacity worker of which busy
\* places are taken: the goroutine goes on
SlotFree(worker, busy) == worker > 0 => busy < worker

\* the goroutines of the target groups that hold a place in limit
XferBusy == Cardinality({h \in DOMAIN xfer.exp : xfer.exp[h].pc = "run"})

\* WriteTo's goroutine for target group g: it takes a slot of limit, opens its store and
\* reads; when ew.Open or ew.read fails it logs the error and returns
ExpOpen(g, outcome) ==
    /\ xfer.pc = "run"
    /\ g \in DOMAIN xfer.exp
    /\ xfer.exp[g].pc = "wait"
    /\ SlotFree(xfer.worker, XferBusy)
    /\ outcome # "ok" => xfer.faults < MaxFaults
    /\ xfer' = IF outcome # "ok"
               THEN [xfer EXCEPT !.faults = @ + 1,
                                 !.exp[g].pc = "failed", !.exp[g].err = outcome]
               ELSE [xfer EXCEPT !.exp[g].pc = "run",
                        !.exp[g].rs = read(Sources[xfer.src], xfer.sourceGroups,
                                           xfer.targetGroups[g].StartTime,
                                           xfer.targetGroups[g].EndTime - 1)]
    /\ UNCHANGED <<plan, rpm, sg, routers, calls, returned, dt, cp, stpl, tcmd, rel, opn>>

\* the process ends in a panic: no goroutine is left
Panicked(x, panic) ==
    [x EXCEPT !.pc = "idle", !.exit = "2", !.panic = panic,
              !.exp = <<>>, !.pipes = EmptyMap, !.chans = EmptyMap, !.cache = EmptyMap,
              !.closes = EmptyMap, !.nodes = EmptyMap]

\* a deferred function that closes the pipes of every group
ClosePipes_All(pipes, g) ==
    [q \in DOMAIN pipes |-> [pipes[q] EXCEPT !.closed = TRUE]]

\* the deferred function of writeBucket: the pipes of group g are closed
ClosePipes(pipes, g) ==
    [q \in DOMAIN pipes |-> IF q[1] = g THEN [pipes[q] EXCEPT !.closed = TRUE] ELSE pipes[q]]

\* no bucket is ever found for the node
BucketOpen_Never(bws, nodeIndex) == FALSE

\* _, bok := bws[nodeIndex]
BucketOpen(bws, nodeIndex) == nodeIndex \in bws

\* writeBucket, one turn of its loop over the result set.  A write to a pipe whose reader
\* is closed either returns the error at once, and writeBucket returns it, or stays in the
\* writer's buffer; a write to a pipe whose buffer is full waits for the reader
ExpSeries(g, fails) ==
    /\ xfer.pc = "run"
    /\ g \in DOMAIN xfer.exp
    /\ xfer.exp[g].pc = "run"
    /\ xfer.exp[g].rs # <<>>
    /\ \E rs \in {Head(xfer.exp[g].rs)} :
       \E h \in {Get(XferRing, xfer.cache, GetKey(Database, rs.Name))} :
       LET min == xfer.targetGroups[g].StartTime
           max == xfer.targetGroups[g].EndTime
           nodeIndex == h.idx
           p == <<g, nodeIndex>>
           bok == BucketOpen(xfer.exp[g].bws, nodeIndex)
           pr == [frames |-> <<[db |-> Database, rp |-> XferRp, sd |-> xfer.sd],
                               [Start |-> min, End |-> max]>>,
                  closed |-> FALSE, pc |-> "queued", pos |-> 0, shardID |-> 0, err |-> "",
                  shCloses |-> 0, swCloses |-> 0, nilClose |-> FALSE]
           readerClosed == bok /\ xfer.pipes[p].pc = "failed"
           pipes == IF bok THEN xfer.pipes
                    ELSE [q \in (DOMAIN xfer.pipes) \cup {p} |->
                             IF q = p THEN pr ELSE xfer.pipes[q]]
           series == [SeriesKey |-> MakeKey(rs.Name, rs.Tags), Field |-> rs.Field,
                      Values |-> rs.Values]
       IN  IF NeedEscape(rs.Name, rs.Tags)
           THEN ~fails /\ xfer' = [xfer EXCEPT !.exp[g].rs = Tail(@)]
           ELSE IF nodeIndex \in DOMAIN xfer.chans /\ readerClosed /\ fails
           THEN xfer' = [xfer EXCEPT !.cache = h.cache,
                                     !.exp[g].pc = "failed", !.exp[g].err = "write",
                                     !.pipes = ClosePipes(@, g)]
           ELSE IF nodeIndex \in DOMAIN xfer.chans /\ ~bok /\ xfer.closes[nodeIndex] > 0
           THEN ~fails /\ xfer' = Panicked(xfer, "send on closed channel")
           ELSE IF nodeIndex \in DOMAIN xfer.chans
           THEN /\ ~fails
                /\ bok \/ Len(xfer.chans[nodeIndex]) < ChanCap
                /\ readerClosed \/ Len(pipes[p].frames) - pipes[p].pos < PipeCap
                /\ xfer' = [xfer EXCEPT
                       !.cache = h.cache,
                       !.exp[g].rs = Tail(@),
                       !.exp[g].bws = @ \cup {nodeIndex},
                       !.pipes = [pipes EXCEPT ![p].frames = Append(@, series)],
                       !.chans[nodeIndex] = IF bok THEN @ ELSE Append(@, p),
                       !.sent = @ \cup {[run |-> xfer.runs, min |-> min, node |-> nodeIndex,
                                         Name |-> rs.Name, Tags |-> rs.Tags,
                                         Field |-> rs.Field, Values |-> rs.Values]}]
           ELSE ~fails /\ xfer' = [xfer EXCEPT !.cache = h.cache, !.exp[g].rs = Tail(@)]
    /\ UNCHANGED <<plan, rpm, sg, routers, calls, returned, dt, cp, stpl, tcmd, rel, opn>>

\* writeBucket returns: its deferred function closes the buckets, writers and pipes
ExpDone(g) ==
    /\ xfer.pc = "run"
    /\ g \in DOMAIN xfer.exp
    /\ xfer.exp[g].pc = "run"
    /\ xfer.exp[g].rs = <<>>
    /\ xfer' = [xfer EXCEPT
           !.exp[g].pc = "done",
           !.pipes = ClosePipes(@, g)]
    /\ UNCHANGED <<plan, rpm, sg, routers, calls, returned, dt, cp, stpl, tcmd, rel, opn>>

\* transferNode: for pr := range prChan { go func() ... }
NodeRecv(n) ==
    /\ xfer.pc = "run"
    /\ n \in DOMAIN xfer.chans
    /\ xfer.chans[n] # <<>>
    /\ xfer' = [xfer EXCEPT !.chans[n] = Tail(@),
                           !.pipes[Head(xfer.chans[n])].pc = "header"]
    /\ UNCHANGED <<plan, rpm, sg, routers, calls, returned, dt, cp, stpl, tcmd, rel, opn>>

\* WriteTo has returned: wg.Wait() saw every goroutine of the target groups end
WriteToReturned_FirstDone ==
    \E g \in DOMAIN xfer.exp : xfer.exp[g].pc \in {"done", "failed"}

WriteToReturned ==
    \A g \in DOMAIN xfer.exp : xfer.exp[g].pc \in {"done", "failed"}

\* the deferred function of transfer's first goroutine, one turn of its loop over prChans
ChanClose(n) ==
    /\ xfer.pc = "run"
    /\ WriteToReturned
    /\ n \in DOMAIN xfer.chans
    /\ xfer.closes[n] = 0
    /\ xfer' = [xfer EXCEPT !.closes[n] = @ + 1]
    /\ UNCHANGED <<plan, rpm, sg, routers, calls, returned, dt, cp, stpl, tcmd, rel, opn>>

\* transferNode: the range over prChan ends on the closed and drained channel, wg.Wait()
\* sees the import goroutines end, and transferNode returns
NodeEnd(n) ==
    /\ xfer.pc = "run"
    /\ n \in DOMAIN xfer.nodes
    /\ xfer.nodes[n] = "recv"
    /\ xfer.closes[n] > 0
    /\ xfer.chans[n] = <<>>
    /\ \A p \in DOMAIN xfer.pipes : p[2] = n => xfer.pipes[p].pc \in {"done", "failed"}
    /\ xfer' = [xfer EXCEPT !.nodes[n] = "done"]
    /\ UNCHANGED <<plan, rpm, sg, routers, calls, returned, dt, cp, stpl, tcmd, rel, opn>>

\* the import goroutine: ReadHeader, NextBucket, and ImportShard's StartShardGroup
ImpBegin(p) ==
    /\ xfer.pc = "run"
    /\ p \in DOMAIN xfer.pipes
    /\ xfer.pipes[p].pc = "header"
    /\ Len(xfer.pipes[p].frames) >= 2
    /\ LET bh == xfer.pipes[p].frames[2]
           n == p[2]
           r == StartShardGroup(xfer.targets[n].data, XferRp, bh.Start, bh.End)
           shards == xfer.targets[n].shards
       IN  IF r.err # ""
           THEN xfer' = [xfer EXCEPT !.pipes[p].pc = "failed"]
           ELSE xfer' = [xfer EXCEPT
                    !.pipes[p].pc = "series", !.pipes[p].pos = 2,
                    !.pipes[p].shardID = r.shardID,
                    !.targets[n].data = r.data,
                    !.targets[n].shards =
                        [id \in (DOMAIN shards) \cup {r.shardID} |->
                            IF id \in DOMAIN shards THEN shards[id] ELSE {}]]
    /\ UNCHANGED <<plan, rpm, sg, routers, calls, returned, dt, cp, stpl, tcmd, rel, opn>>

\* ImportShard, one turn of its loop: NextSeries, AddSeries and the Write of its points
ImpSeries(p) ==
    /\ xfer.pc = "run"
    /\ p \in DOMAIN xfer.pipes
    /\ xfer.pipes[p].pc = "series"
    /\ xfer.pipes[p].pos < Len(xfer.pipes[p].frames)
    /\ LET sh == xfer.pipes[p].frames[xfer.pipes[p].pos + 1]
       IN  xfer' = [xfer EXCEPT
               !.pipes[p].pos = @ + 1,
               !.targets[p[2]].shards[xfer.pipes[p].shardID] =
                   @ \cup {[SeriesKey |-> sh.SeriesKey, Field |-> sh.Field,
                            ts |-> v[1], value |-> v[2]] : v \in sh.Values}]
    /\ UNCHANGED <<plan, rpm, sg, routers, calls, returned, dt, cp, stpl, tcmd, rel, opn>>

\* ImportShard ends at the end of the bucket: CloseShardGroup
ImpDone(p) ==
    /\ xfer.pc = "run"
    /\ p \in DOMAIN xfer.pipes
    /\ xfer.pipes[p].pc = "series"
    /\ xfer.pipes[p].pos = Len(xfer.pipes[p].frames)
    /\ xfer.pipes[p].closed
    /\ xfer' = [xfer EXCEPT !.pipes[p].pc = "done",
                           !.pipes[p].shCloses = @ + 1, !.pipes[p].swCloses = @ + 1]
    /\ UNCHANGED <<plan, rpm, sg, routers, calls, returned, dt, cp, stpl, tcmd, rel, opn>>

\* reader.NextSeries answers an error in the middle of a bucket: ImportShard leaves its
\* loop, closes the shard group and returns the error; the goroutine logs it and returns
ImpReadError(p) ==
    /\ xfer.pc = "run"
    /\ p \in DOMAIN xfer.pipes
    /\ xfer.pipes[p].pc = "series"
    /\ xfer.faults < MaxFaults
    /\ xfer' = [xfer EXCEPT !.faults = @ + 1,
                           !.pipes[p].pc = "failed", !.pipes[p].err = "read",
                           !.pipes[p].shCloses = @ + 1, !.pipes[p].swCloses = @ + 1,
                           !.errors = @ \cup {[pipe |-> p, err |-> "read",
                                               shardID |-> xfer.pipes[p].shardID,
                                               shCloses |-> 1, swCloses |-> 1,
                                               nilClose |-> FALSE]}]
    /\ UNCHANGED <<plan, rpm, sg, routers, calls, returned, dt, cp, stpl, tcmd, rel, opn>>

\* i.sh.Write fails on a series of the bucket: importWorker.Write closes the shard group,
\* removes the shard directory and returns the error; ImportShard then calls
\* CloseShardGroup once more: the series writer is closed again, then Close is called on
\* the nil shard writer, and the process may panic there
ImpWriteError(p, panics) ==
    /\ xfer.pc = "run"
    /\ p \in DOMAIN xfer.pipes
    /\ xfer.pipes[p].pc = "series"
    /\ xfer.pipes[p].pos < Len(xfer.pipes[p].frames)
    /\ xfer.faults < MaxFaults
    /\ LET n == p[2]
           shards == xfer.targets[n].shards
           removed == [id \in (DOMAIN shards) \ {xfer.pipes[p].shardID} |-> shards[id]]
           errors == xfer.errors \cup {[pipe |-> p, err |-> "write",
                                        shardID |-> xfer.pipes[p].shardID,
                                        shCloses |-> 1, swCloses |-> 2,
                                        nilClose |-> TRUE]}
           failed == [xfer EXCEPT !.faults = @ + 1, !.errors = errors,
                                  !.targets[n].shards = removed,
                                  !.pipes[p].pc = "failed", !.pipes[p].err = "write",
                                  !.pipes[p].shCloses = 1, !.pipes[p].swCloses = 2,
                                  !.pipes[p].nilClose = TRUE]
       IN  xfer' = IF panics THEN Panicked(failed, "nil shard writer") ELSE failed
    /\ UNCHANGED <<plan, rpm, sg, routers, calls, returned, dt, cp, stpl, tcmd, rel, opn>>

\* command.transfer returns ("transfer done"), runE returns nil and the process ends
TransferDone ==
    /\ xfer.pc = "run"
    /\ \A n \in DOMAIN xfer.nodes : xfer.nodes[n] = "done"
    /\ xfer' = [xfer EXCEPT !.pc = "idle", !.done = @ \cup {xfer.src},
                           !.exp = <<>>, !.pipes = EmptyMap, !.chans = EmptyMap,
                           !.cache = EmptyMap, !.closes = EmptyMap, !.nodes = EmptyMap,
                           !.exit = "0"]
    /\ UNCHANGED <<plan, rpm, sg, routers, calls, returned, dt, cp, stpl, tcmd, rel, opn>>

NextXfer ==
    \/ \E name \in DOMAIN Sources, nodeIndex \in (SUBSET XferNodes) \ {{}}, worker \in {0, 1} :
          TransferStart(name, nodeIndex, worker)
    \/ \E g \in DOMAIN xfer.exp, outcome \in {"ok", "open", "read"} : ExpOpen(g, outcome)
    \/ \E g \in DOMAIN xfer.exp, fails \in BOOLEAN : ExpSeries(g, fails)
    \/ \E g \in DOMAIN xfer.exp : ExpDone(g)
    \/ \E n \in XferNodes : NodeRecv(n)
    \/ \E n \in XferNodes : ChanClose(n)
    \/ \E n \in XferNodes : NodeEnd(n)
    \/ \E p \in DOMAIN xfer.pipes : ImpBegin(p)
    \/ \E p \in DOMAIN xfer.pipes : ImpSeries(p)
    \/ \E p \in DOMAIN xfer.pipes : ImpDone(p)
    \/ \E p \in DOMAIN xfer.pipes : ImpReadError(p)
    \/ \E p \in DOMAIN xfer.pipes, panics \in BOOLEAN : ImpWriteError(p, panics)
    \/ TransferDone

SpecXfer == InitXfer /\ [][NextXfer]_vars

\* the steps of the goroutines of a run, without the errors of the environment: the Go
\* scheduler runs every goroutine that can take a step
XferSteps ==
    \/ \E g \in DOMAIN xfer.exp : ExpOpen(g, "ok")
    \/ \E g \in DOMAIN xfer.exp, fails \in BOOLEAN : ExpSeries(g, fails)
    \/ \E g \in DOMAIN xfer.exp : ExpDone(g)
    \/ \E n \in XferNodes : NodeRecv(n)
    \/ \E n \in XferNodes : ChanClose(n)
    \/ \E n \in XferNodes : NodeEnd(n)
    \/ \E p \in DOMAIN xfer.pipes : ImpBegin(p)
    \/ \E p \in DOMAIN xfer.pipes : ImpSeries(p)
    \/ \E p \in DOMAIN xfer.pipes : ImpDone(p)
    \/ TransferDone

SpecXferLive == InitXfer /\ [][NextXfer]_vars /\ WF_vars(XferSteps)

\* a series that needs escaping: ',' or ' ' in the measurement, or ',', ' ' or '=' in a
\* tag key or tag value
SeriesNeedsEscaping(name, tags) ==
    \/ \E i \in 1..Len(name) : name[i] \in {",", " "}
    \/ \E t \in 1..Len(tags) :
          \/ \E i \in 1..Len(tags[t].Key) : tags[t].Key[i] \in {",", " ", "="}
          \/ \E i \in 1..Len(tags[t].Value) : tags[t].Value[i] \in {",", " ", "="}

\* the points a target directory holds
TargetPoints(n) ==
    UNION {xfer.targets[n].shards[id] : id \in DOMAIN xfer.targets[n].shards}

\* the points of a source directory whose series need no escaping, as the target names them
SourcePoints(name) ==
    {[SeriesKey |-> MakeKey(p.series.Name, p.series.Tags), Field |-> p.field,
      ts |-> p.ts, value |-> p.value] :
        p \in {q \in Sources[name].points : ~SeriesNeedsEscaping(q.series.Name, q.series.Tags)}}

\* C1 as stated: after runs over all node indices with the unbounded time range and
\* without a worker error, every source point of a series that needs no escaping is in
\* exactly one target directory,
\* and the target directories hold nothing else; over several runs, the union of the sources.
C1_Conservation_AsStated ==
    (xfer.pc = "idle" /\ xfer.done # {} /\ xfer.allNodes /\ xfer.faults = 0) =>
        LET expected == UNION {SourcePoints(name) : name \in xfer.done}
        IN  /\ \A pt \in expected : Cardinality({n \in XferNodes : pt \in TargetPoints(n)}) = 1
            /\ \A n \in XferNodes : TargetPoints(n) \subseteq expected

\* the measurement of a series key without escapes: the bytes before the first comma
RECURSIVE MeasurementOf(_)
MeasurementOf(key) ==
    IF key = <<>> \/ Head(key) = "," THEN <<>> ELSE <<Head(key)>> \o MeasurementOf(Tail(key))

\* the node of a measurement: the router's answer for the default shard key %db,%mm
NodeOf(measurement) ==
    RingLookup(XferRing,
               ShardTplGetKey(<<"%", "d", "b", ",", "%", "m", "m">>, Database, measurement))

\* the series entries of a pipe: what follows the header and the bucket header
SeriesFrames(p) == {xfer.pipes[p].frames[i] : i \in 3..Len(xfer.pipes[p].frames)}

\* the result set the finished exporter goroutine g went through
ResultSetOf(g) ==
    Range(read(Sources[xfer.src], xfer.sourceGroups,
               xfer.targetGroups[g].StartTime, xfer.targetGroups[g].EndTime - 1))

C4_EscapeFilter ==
    xfer.pc \in {"idle", "run"} =>
        /\ \A s \in xfer.sent : ~SeriesNeedsEscaping(s.Name, s.Tags)
        /\ \A name \in DOMAIN Sources : \A q \in Sources[name].points :
              SeriesNeedsEscaping(q.series.Name, q.series.Tags) =>
                  /\ \A n \in XferNodes : \A pt \in TargetPoints(n) :
                        ~(pt.ts = q.ts /\ pt.value = q.value)
                  /\ \A p \in DOMAIN xfer.pipes : \A f \in SeriesFrames(p) :
                        <<q.ts, q.value>> \notin f.Values
        /\ \A g \in DOMAIN xfer.exp : (xfer.exp[g].pc = "done" /\ xfer.nodeIndex = XferNodes) =>
              \A e \in ResultSetOf(g) : ~SeriesNeedsEscaping(e.Name, e.Tags) =>
                  \E p \in DOMAIN xfer.pipes :
                      /\ p[1] = g
                      /\ \E f \in SeriesFrames(p) :
                            /\ f.SeriesKey = MakeKey(e.Name, e.Tags)
                            /\ f.Field = e.Field
                            /\ f.Values = e.Values

\* a finished writeBucket met a series to discard first and a series to keep after it,
\* and the kept one has reached a target shard
C4_Witness ==
    /\ xfer.pc = "run"
    /\ xfer.nodeIndex = XferNodes
    /\ \E g \in DOMAIN xfer.exp :
          /\ xfer.exp[g].pc = "done"
          /\ LET rs == read(Sources[xfer.src], xfer.sourceGroups,
                            xfer.targetGroups[g].StartTime, xfer.targetGroups[g].EndTime - 1)
             IN  /\ Len(rs) >= 2
                 /\ SeriesNeedsEscaping(rs[1].Name, rs[1].Tags)
                 /\ ~SeriesNeedsEscaping(rs[2].Name, rs[2].Tags)
                 /\ \E n \in XferNodes : \E pt \in TargetPoints(n) :
                       pt.SeriesKey = MakeKey(rs[2].Name, rs[2].Tags)

\* the shard groups the catalog of target node n records for the retention policy
CatalogGroups(n) == xfer.targets[n].data.RetentionPolicies[XferRp].ShardGroups
\* the shard ids the catalog of target node n references
CatalogShardIDs(n) ==
    {CatalogGroups(n)[i].Shards[j].ID :
        i \in 1..Len(CatalogGroups(n)), j \in {1}}

\* C11 as stated: after any error in the middle of importing a shard (a stream read error
\* as well as a shard write error) the shard directory <data>/<db>/<rp>/<shardId> of the
\* failed import is gone from the target
C11_PartialShardCleanup_AsStated ==
    \A e \in xfer.errors :
        e.shardID \notin DOMAIN xfer.targets[e.pipe[2]].shards

\* C12 as stated: after a write error in the middle of a shard import, the catalog of the
\* target references no shard whose directory was deleted: the shard-group record of the
\* failed bucket is removed
C12_ShardGroupRecordRemoved_AsStated ==
    \A e \in xfer.errors :
        e.err = "write" => e.shardID \notin CatalogShardIDs(e.pipe[2])

(***************************************************************************)
(* deletetsm.  A segment file is the sequence of its blocks, each with its *)
(* composite key (series key, "#!~#", field), time range and block bytes.  *)
(* A series key is parsed as models.ParseKey parses it.                    *)
(***************************************************************************)
keyFieldSeparator == <<"#", "!", "~", "#">>

\* bytes.Index: the first position of sep in s, 0 if there is none
RECURSIVE IndexFrom(_, _, _)
IndexFrom(s, i, sep) ==
    IF i > Len(s) THEN 0
    ELSE IF HasPrefixAt(s, i, sep) THEN i
    ELSE IndexFrom(s, i + 1, sep)

SeriesAndFieldFromCompositeKey(key) ==
    LET sep == IndexFrom(key, 1, keyFieldSeparator)
    IN  IF sep = 0 THEN [series |-> key, field |-> <<>>]
        ELSE [series |-> SubSeq(key, 1, sep - 1),
              field |-> SubSeq(key, sep + Len(keyFieldSeparator), Len(key))]

\* models.scanMeasurement from offset 0; i counts bytes as the Go code does (buf[i] is the
\* model's buf[i + 1]); the answer is the state and the offset reached
RECURSIVE scanMeasurementFrom(_, _)
scanMeasurementFrom(buf, i) ==
    LET j == i + 1
    IN  IF j >= Len(buf) THEN [state |-> "none", i |-> j]
        ELSE IF buf[j] = "\\" THEN scanMeasurementFrom(buf, j)
        ELSE IF buf[j + 1] = "," THEN [state |-> "tagKey", i |-> j + 1]
        ELSE IF buf[j + 1] = " " THEN [state |-> "fields", i |-> j]
        ELSE scanMeasurementFrom(buf, j)

scanMeasurement(buf) ==
    IF Len(buf) = 0 \/ buf[1] = "," THEN [state |-> "none", i |-> 0]
    ELSE scanMeasurementFrom(buf, 0)

\* models.scanTo: from offset i to the first unescaped stop byte
RECURSIVE scanTo(_, _, _)
scanTo(buf, i, stop) ==
    IF i >= Len(buf) THEN i
    ELSE IF buf[i + 1] = stop /\ (i = 0 \/ buf[i] # "\\") THEN i
    ELSE scanTo(buf, i + 1, stop)

\* models.scanTagValue: from offset i to the first unescaped comma
RECURSIVE scanTagValue(_, _)
scanTagValue(buf, i) ==
    IF i >= Len(buf) THEN i
    ELSE IF buf[i + 1] = "," /\ buf[i] # "\\" THEN i
    ELSE scanTagValue(buf, i + 1)

unescapeTag(in) ==
    ReplaceAll(ReplaceAll(ReplaceAll(in, <<"\\", ",">>, <<",">>),
                          <<"\\", " ">>, <<" ">>),
               <<"\\", "=">>, <<"=">>)

unescapeMeasurement(in) ==
    ReplaceAll(ReplaceAll(in, <<"\\", ",">>, <<",">>), <<"\\", " ">>, <<" ">>)

\* models.walkTags from offset i: key up to '=', value up to ',', tags of empty value skipped
RECURSIVE walkTagsFrom(_, _)
walkTagsFrom(buf, i) ==
    IF i >= Len(buf) THEN <<>>
    ELSE LET k == scanTo(buf, i, "=")
             v == scanTagValue(buf, k + 1)
             key == SubSeq(buf, i + 1, k)
             value == SubSeq(buf, k + 2, IF v > Len(buf) THEN k + 1 ELSE v)
         IN  IF Len(value) = 0
             THEN IF v > i THEN walkTagsFrom(buf, v) ELSE <<>>
             ELSE <<[Key |-> unescapeTag(key), Value |-> unescapeTag(value)]>>
                      \o walkTagsFrom(buf, v + 1)

parseTags(buf) ==
    LET pos == scanTo(buf, 0, ",")
    IN  IF Len(buf) = 0 \/ pos = 0 THEN <<>> ELSE walkTagsFrom(buf, pos + 1)

\* models.ParseKey: the unescaped measurement and the tags of a series key
ParseKey(buf) ==
    LET r == scanMeasurement(buf)
    IN  IF r.state = "tagKey"
        THEN [measurement |-> unescapeMeasurement(SubSeq(buf, 1, r.i - 1)),
              tags |-> parseTags(buf)]
        ELSE [measurement |-> unescapeMeasurement(SubSeq(buf, 1, r.i)), tags |-> <<>>]

\* the bytes of the model that unicode.IsPrint rejects
NonPrintable == {"\t"}

ValidKeyToken(str) == \A i \in 1..Len(str) : str[i] \notin NonPrintable

ValidKeyTokens(name, tags) ==
    /\ ValidKeyToken(name)
    /\ \A i \in 1..Len(tags) : ValidKeyToken(tags[i].Key) /\ ValidKeyToken(tags[i].Value)

\* the block is skipped: its measurement is the one to delete, or sanitize is on and the
\* key has a non-printable token; the measurement is dropped whatever --sanitize says
DropBlock_SanitizeAlways(key, measurement, sanitize) ==
    LET pk == ParseKey(SeriesAndFieldFromCompositeKey(key).series)
    IN  pk.measurement = measurement \/ ~ValidKeyTokens(pk.measurement, pk.tags)

DropBlock(key, measurement, sanitize) ==
    LET pk == ParseKey(SeriesAndFieldFromCompositeKey(key).series)
    IN  pk.measurement = measurement \/ (sanitize /\ ~ValidKeyTokens(pk.measurement, pk.tags))

\* the temporary file is the path itself: the segment is rewritten in place
outputPath_InPlace(path) == path

outputPath(path) == path \o ".rewriting.tmp"

(***************************************************************************)
(* deletetsm runs as a state machine: one run over its path arguments,     *)
(* process(path) in steps (open, create, one step per block, index and     *)
(* close, rename), each of which the file system may fail.                 *)
(***************************************************************************)
\* most path arguments of a run
MaxPaths == 2
\* most file-system errors the environment inflicts on a run
MaxIoErrors == 1

DtPaths == {"p", "q"}
DtNames == DtPaths \cup {outputPath(path) : path \in DtPaths}

DtField == <<"v">>
CompositeKey(series) == series \o keyFieldSeparator \o DtField
DtBlock(series, minTime, maxTime, block) ==
    [key |-> CompositeKey(series), minTime |-> minTime, maxTime |-> maxTime, block |-> block]

KeyCpuA == <<"c", "p", "u", ",", "h", "=", "a">>
KeyCpuNonPrintable == <<"c", "p", "u", ",", "h", "=", "b", "\t">>
KeyMem == <<"m", "e", "m">>
KeyEscaped == <<"c", "\\", ",", "p", ",", "h", "=", "a">>
KeyCpux == <<"c", "p", "u", "x">>
KeyNameNonPrintable == <<"m", "\t", "m">>

AbsentFile == [exists |-> FALSE, blocks |-> <<>>]
Segment(blocks) == [exists |-> TRUE, blocks |-> blocks]

\* the segment files a path may hold, their keys in byte order as the segment writer left them
DtSegments ==
    { Segment(<<DtBlock(KeyCpuA, 1, 2, "b1"), DtBlock(KeyCpuA, 3, 4, "b2"),
                DtBlock(KeyCpuNonPrintable, 1, 2, "b3"), DtBlock(KeyMem, 1, 4, "b4")>>),
      Segment(<<DtBlock(KeyEscaped, 1, 1, "b5"), DtBlock(KeyCpux, 2, 3, "b6"),
                DtBlock(KeyNameNonPrintable, 1, 2, "b7")>>),
      Segment(<<DtBlock(KeyCpuA, 1, 2, "b1")>>) }

\* the values of --measurement
DtMeasurements == {<<>>, <<"c", "p", "u">>, <<"m", "e", "m">>, <<"c", ",", "p">>}

DtArgs == UNION {[1..n -> DtPaths] : n \in 1..MaxPaths}

\* a temporary file an earlier, failed run left behind
StaleTmp == Segment(<<DtBlock(KeyMem, 1, 4, "b4")>>)

InitDt ==
    /\ \E files \in [DtPaths -> DtSegments \cup {AbsentFile}], stale \in BOOLEAN :
          dt = [pc |-> "idle",
                disk |-> [name \in DtNames |->
                             IF name \in DtPaths THEN files[name]
                             ELSE IF stale /\ name = outputPath("p") THEN StaleTmp
                             ELSE AbsentFile],
                before |-> <<>>, args |-> <<>>, measurement |-> <<>>, sanitize |-> FALSE,
                arg |-> 0, opened |-> <<>>, input |-> <<>>, itr |-> 0,
                ioErrors |-> 0, err |-> ""]
    /\ plan = PlanIdle
    /\ rpm = RpmIdle
    /\ sg = SgIdle
    /\ xfer = XferIdle
    /\ HashIdle
    /\ cp = CpIdle
    /\ stpl = TplIdle
    /\ tcmd = CmdIdle /\ rel = RelIdle /\ opn = OpnIdle

DtPath == dt.args[dt.arg]
DtFails(step) == [dt EXCEPT !.pc = "done", !.err = step]
DtOthers == <<plan, rpm, sg, xfer, routers, calls, returned, cp, stpl, tcmd, rel, opn>>

\* runE: validate, then the loop over the paths
DtRunE(args, measurement, sanitize) ==
    /\ dt.pc = "idle"
    /\ dt' = IF measurement = <<>> /\ ~sanitize
             THEN [dt EXCEPT !.pc = "done", !.err = "validate", !.before = dt.disk,
                             !.args = args, !.measurement = measurement,
                             !.sanitize = sanitize]
             ELSE [dt EXCEPT !.pc = "open", !.before = dt.disk, !.args = args,
                             !.measurement = measurement, !.sanitize = sanitize,
                             !.arg = 1, !.opened = dt.disk]
    /\ UNCHANGED DtOthers

\* process: os.Open and tsm1.NewTSMReader
DtOpen(fails) ==
    /\ dt.pc = "open"
    /\ fails => dt.ioErrors < MaxIoErrors
    /\ dt' = IF ~dt.disk[DtPath].exists THEN DtFails("open")
             ELSE IF fails THEN [DtFails("open") EXCEPT !.ioErrors = @ + 1]
             ELSE [dt EXCEPT !.pc = "create", !.input = dt.disk[DtPath].blocks]
    /\ UNCHANGED DtOthers

\* process: remove the previous temporary file, create the new one, tsm1.NewTSMWriter
DtCreate(outcome) ==
    /\ dt.pc = "create"
    /\ outcome # "ok" => dt.ioErrors < MaxIoErrors
    /\ dt' = CASE outcome = "ok" ->
                    [dt EXCEPT !.pc = "block", !.itr = 0,
                               !.disk[outputPath(DtPath)] = Segment(<<>>)]
               [] outcome = "remove" ->
                    [DtFails("remove") EXCEPT !.ioErrors = @ + 1]
               [] outcome = "create" ->
                    [DtFails("create") EXCEPT !.ioErrors = @ + 1,
                                              !.disk[outputPath(DtPath)] = AbsentFile]
    /\ UNCHANGED DtOthers

\* process, one turn of the loop over the input blocks: itr.Read, the test, w.WriteBlock
DtNextBlock(outcome) ==
    /\ dt.pc = "block"
    /\ dt.itr < Len(dt.input)
    /\ outcome # "ok" => dt.ioErrors < MaxIoErrors
    /\ LET b == dt.input[dt.itr + 1]
       IN  dt' = CASE outcome = "read" -> [DtFails("read") EXCEPT !.ioErrors = @ + 1]
                   [] outcome = "ok" /\ DropBlock(b.key, dt.measurement, dt.sanitize) ->
                        [dt EXCEPT !.itr = @ + 1]
                   [] outcome = "write" /\ DropBlock(b.key, dt.measurement, dt.sanitize) ->
                        [dt EXCEPT !.itr = @ + 1]
                   [] outcome = "write" -> [DtFails("write") EXCEPT !.ioErrors = @ + 1]
                   [] OTHER ->
                        [dt EXCEPT !.itr = @ + 1,
                                   !.disk[outputPath(DtPath)].blocks = Append(@, b)]
    /\ UNCHANGED DtOthers

\* process: w.WriteIndex (which refuses a segment without blocks) and w.Close
DtWriteIndex(fails) ==
    /\ dt.pc = "block"
    /\ dt.itr = Len(dt.input)
    /\ fails => dt.ioErrors < MaxIoErrors
    /\ dt' = IF dt.disk[outputPath(DtPath)].blocks = <<>> THEN DtFails("index")
             ELSE IF fails THEN [DtFails("index") EXCEPT !.ioErrors = @ + 1]
             ELSE [dt EXCEPT !.pc = "rename"]
    /\ UNCHANGED DtOthers

\* process: os.Rename(outputPath, path); runE goes on to the next path or returns
DtRename(fails) ==
    /\ dt.pc = "rename"
    /\ fails => dt.ioErrors < MaxIoErrors
    /\ dt' = IF fails THEN [DtFails("rename") EXCEPT !.ioErrors = @ + 1]
             ELSE LET disk == [name \in DtNames |->
                                  IF name = DtPath THEN dt.disk[outputPath(DtPath)]
                                  ELSE IF name = outputPath(DtPath) THEN AbsentFile
                                  ELSE dt.disk[name]]
                  IN  IF dt.arg < Len(dt.args)
                      THEN [dt EXCEPT !.disk = disk, !.pc = "open", !.arg = @ + 1,
                                      !.opened = disk]
                      ELSE [dt EXCEPT !.disk = disk, !.pc = "done"]
    /\ UNCHANGED DtOthers

NextDt ==
    \/ \E args \in DtArgs, measurement \in DtMeasurements, sanitize \in BOOLEAN :
          DtRunE(args, measurement, sanitize)
    \/ \E fails \in BOOLEAN : DtOpen(fails)
    \/ \E outcome \in {"ok", "remove", "create"} : DtCreate(outcome)
    \/ \E outcome \in {"ok", "read", "write"} : DtNextBlock(outcome)
    \/ \E fails \in BOOLEAN : DtWriteIndex(fails)
    \/ \E fails \in BOOLEAN : DtRename(fails)

SpecDt == InitDt /\ [][NextDt]_vars

\* the run returned nil: every path was processed and renamed
DtSucceeded == dt.pc = "done" /\ dt.err = ""
\* what the parse of a block's key gives
BlockMeasurement(b) == ParseKey(SeriesAndFieldFromCompositeKey(b.key).series).measurement
BlockTags(b) == ParseKey(SeriesAndFieldFromCompositeKey(b.key).series).tags
BlockPrintable(b) == ValidKeyTokens(BlockMeasurement(b), BlockTags(b))
HasKey(blocks, series) == \E i \in 1..Len(blocks) : blocks[i].key = CompositeKey(series)

\* C13: after a successful run, no block of a rewritten file has the measurement to delete;
\* with sanitize off the file is its original without those blocks, every other block
\* the same and in the same order; with sanitize on, the blocks whose measurement or tags
\* have a non-printable character are dropped too, and only those ("cpu,h=a" stays,
\* "cpu,h=b\t" goes)
C13_DeletetsmSelectivity ==
    DtSucceeded =>
        \A path \in Range(dt.args) :
            LET original == dt.before[path].blocks
                rewritten == dt.disk[path].blocks
            IN  /\ \A i \in 1..Len(rewritten) : BlockMeasurement(rewritten[i]) # dt.measurement
                /\ ~dt.sanitize =>
                      rewritten = SelectSeq(original,
                                      LAMBDA b : BlockMeasurement(b) # dt.measurement)
                /\ dt.sanitize =>
                      rewritten = SelectSeq(original,
                                      LAMBDA b : /\ BlockMeasurement(b) # dt.measurement
                                                 /\ BlockPrintable(b))
                /\ (HasKey(original, KeyCpuA) /\ dt.measurement # <<"c", "p", "u">>)
                      => HasKey(rewritten, KeyCpuA)
                /\ HasKey(original, KeyCpuNonPrintable) =>
                      (HasKey(rewritten, KeyCpuNonPrintable)
                          <=> (~dt.sanitize /\ dt.measurement # <<"c", "p", "u">>))

\* a successful run over both kinds of file, with sanitize on, that dropped blocks of the
\* measurement and a block with a non-printable tag value, and kept others
C13_Witness ==
    /\ DtSucceeded
    /\ dt.sanitize
    /\ dt.measurement = <<"m", "e", "m">>
    /\ \E path \in Range(dt.args) :
          /\ HasKey(dt.before[path].blocks, KeyCpuNonPrintable)
          /\ HasKey(dt.before[path].blocks, KeyMem)
          /\ HasKey(dt.disk[path].blocks, KeyCpuA)
          /\ Len(dt.disk[path].blocks) = 2

\* the paths of the run that come after the current one and were not processed before it
DtLaterPaths ==
    {dt.args[k] : k \in (dt.arg + 1)..Len(dt.args)} \ {dt.args[k] : k \in 1..dt.arg}

\* C14: a path whose processing failed holds its original bytes, and so do the paths
\* after it, which have no temporary file of this run either; a step changes a path only
\* by the final rename of its temporary file, and any other step changes no file but the
\* temporary file of the path in process
C14_DeletetsmAtomicReplacement ==
    /\ [](dt.pc = "done" /\ dt.err \notin {"", "validate"} =>
            /\ dt.disk[DtPath] = dt.opened[DtPath]
            /\ \A path \in DtLaterPaths :
                  /\ dt.disk[path] = dt.before[path]
                  /\ dt.disk[outputPath(path)] = dt.before[outputPath(path)])
    /\ [][dt.pc # "idle" =>
            \A name \in DtNames :
                dt'.disk[name] # dt.disk[name] =>
                    \/ /\ name = outputPath(DtPath)
                       /\ name \notin DtPaths
                    \/ /\ name = DtPath
                       /\ dt.pc = "rename"
                       /\ dt'.disk[name] = dt.disk[outputPath(DtPath)]
                       /\ dt'.err = ""]_vars

\* a run over two paths whose second path failed after blocks went to its temporary
\* file: the first path is rewritten, the second is as it was
C14_Witness ==
    /\ dt.pc = "done"
    /\ dt.err \in {"read", "write", "index", "rename"}
    /\ dt.arg = 2
    /\ dt.args[1] # dt.args[2]
    /\ dt.disk[dt.args[1]] # dt.before[dt.args[1]]
    /\ dt.disk[outputPath(DtPath)].blocks # <<>>
    /\ dt.disk[DtPath] = dt.before[DtPath]

(***************************************************************************)
(* compact.  A shard directory is the set of its files; a file has the     *)
(* generation and sequence of its name, its extension, and whether a       *)
(* segment reader can be opened on it.                                     *)
(***************************************************************************)
TSMFileExtension == "tsm"
TombstoneFileExtension == "tombstone"
TmpTSMFileExtension == "tsm.tmp"

CpFile(gen, seq, ext, good) == [gen |-> gen, seq |-> seq, ext |-> ext, good |-> good]

\* filepath.Glob(path/*.ext)
Glob(dir, ext) == {f \in dir : f.ext = ext}

\* sort.Strings on the zero-padded names: by generation, then sequence
NameLess(a, b) == a.gen < b.gen \/ (a.gen = b.gen /\ a.seq < b.seq)
RECURSIVE SortNames(_)
SortNames(S) ==
    IF S = {} THEN <<>>
    ELSE LET m == CHOOSE x \in S : \A y \in S \ {x} : NameLess(x, y)
         IN  <<m>> \o SortNames(S \ {m})

\* strings.ToLower on the answer's bytes
LowerOf(c) == CASE c = "Y" -> "y" [] c = "N" -> "n" [] c = "E" -> "e" [] c = "S" -> "s"
                [] OTHER -> c
ToLower(str) == [i \in 1..Len(str) |-> LowerOf(str[i])]

\* every answer that begins with y goes ahead
Confirmed_Prefix(force, text) == force \/ (Len(text) > 0 /\ ToLower(text)[1] = "y")

\* runE goes past the prompt
Confirmed(force, text) == force \/ ToLower(text) = <<"y">>

\* openFiles: the segments that were not found corrupt stay; no segment is left out
goodTSM_All(tsm, badTSM) == tsm

goodTSM(tsm, badTSM) == SelectSeq(tsm, LAMBDA f : f \notin badTSM)

\* Compactor.compact: the greatest generation of the inputs and the greatest sequence in it
maxGeneration(tsmFiles) ==
    CHOOSE g \in {tsmFiles[i].gen : i \in 1..Len(tsmFiles)} :
        \A i \in 1..Len(tsmFiles) : tsmFiles[i].gen <= g
maxSequence(tsmFiles) ==
    CHOOSE q \in {tsmFiles[i].seq : i \in 1..Len(tsmFiles)} :
        /\ \E i \in 1..Len(tsmFiles) :
              tsmFiles[i].gen = maxGeneration(tsmFiles) /\ tsmFiles[i].seq = q
        /\ \A i \in 1..Len(tsmFiles) :
              tsmFiles[i].gen = maxGeneration(tsmFiles) => tsmFiles[i].seq <= q

\* the k-th output takes the sequence of the input it follows
writeNewFiles_SameSequence(tsmFiles, n) ==
    [k \in 1..n |-> CpFile(maxGeneration(tsmFiles), maxSequence(tsmFiles) + k - 1,
                           TmpTSMFileExtension, TRUE)]

\* Compactor.writeNewFiles: the n temporary files of a full compaction
writeNewFiles(tsmFiles, n) ==
    [k \in 1..n |-> CpFile(maxGeneration(tsmFiles), maxSequence(tsmFiles) + k,
                           TmpTSMFileExtension, TRUE)]

\* os.Rename(file, newName) in a directory: the file takes the name, replacing its holder
Rename(dir, file, newName) ==
    {f \in dir : f # file /\ ~(f.gen = newName.gen /\ f.seq = newName.seq
                               /\ f.ext = newName.ext)} \cup {newName}

(***************************************************************************)
(* compact runs as a state machine: runE up to the prompt, then one        *)
(* goroutine per shard directory: newShardCompactor (one step per segment  *)
(* opened), CompactFull, and replace (one step per rename and removal).    *)
(***************************************************************************)
CpShards == {"1", "2"}
\* most output files of one full compaction
MaxOutputs == 2

\* the shard directories on disk: good segments with a tombstone, a corrupt segment next
\* to a good one, corrupt segments only, a directory without segments
CpDirs ==
    { {CpFile(1, 1, TSMFileExtension, TRUE), CpFile(2, 1, TSMFileExtension, TRUE),
       CpFile(1, 1, TombstoneFileExtension, TRUE)},
      {CpFile(1, 1, TSMFileExtension, FALSE), CpFile(1, 2, TSMFileExtension, TRUE)},
      {CpFile(1, 1, TSMFileExtension, FALSE)},
      {CpFile(1, 1, TombstoneFileExtension, TRUE)} }

\* what the operator types at the prompt
CpAnswers == {<<"y">>, <<"Y">>, <<"n">>, <<>>, <<"y", "e", "s">>, <<" ", "y">>}
\* the values of --worker
CpWorkers == {-1, 0, 1}

CpWorkerIdle ==
    [pc |-> "off", tsm |-> <<>>, tombstone |-> <<>>, pending |-> {}, badTSM |-> {},
     tmp |-> <<>>, newTSM |-> <<>>, removed |-> 0, errs |-> {}, err |-> ""]

InitCp ==
    /\ \E disk \in [CpShards -> CpDirs], stray \in BOOLEAN :
          cp = [pc |-> "idle", disk |-> disk, stray |-> stray, before |-> disk,
                force |-> FALSE, text |-> <<>>, asked |-> FALSE, worker |-> 0,
                limit |-> 0, w |-> [s \in CpShards |-> CpWorkerIdle],
                ioErrors |-> 0, err |-> ""]
    /\ plan = PlanIdle
    /\ rpm = RpmIdle
    /\ sg = SgIdle
    /\ xfer = XferIdle
    /\ HashIdle
    /\ dt = DtIdle
    /\ stpl = TplIdle
    /\ tcmd = CmdIdle /\ rel = RelIdle /\ opn = OpnIdle

CpOthers == <<plan, rpm, sg, xfer, routers, calls, returned, dt, stpl, tcmd, rel, opn>>

\* runE: validate, os.ReadDir and the name test, the prompt, then one goroutine per shard
CpRunE(force, text, scanErr, worker) ==
    /\ cp.pc = "idle"
    /\ force => (text = <<>> /\ ~scanErr)
    /\ cp' = IF worker < 0
             THEN [cp EXCEPT !.pc = "done", !.err = "worker is invalid", !.worker = worker,
                             !.force = force]
             ELSE IF cp.stray
             THEN [cp EXCEPT !.pc = "done", !.err = "shard-path is invalid",
                             !.worker = worker, !.force = force]
             ELSE IF ~force /\ scanErr
             THEN [cp EXCEPT !.pc = "done", !.err = "error reading stdin",
                             !.worker = worker, !.asked = TRUE]
             ELSE IF ~Confirmed(force, text)
             THEN [cp EXCEPT !.pc = "done", !.worker = worker, !.force = force,
                             !.text = text, !.asked = ~force]
             ELSE [cp EXCEPT !.pc = "run", !.worker = worker, !.force = force,
                             !.text = text, !.asked = ~force,
                             !.w = [s \in CpShards |-> [CpWorkerIdle EXCEPT !.pc = "wait"]]]
    /\ UNCHANGED CpOthers

\* the goroutine of a shard ends: the deferred wg.Done and release of the limit
CpEnds(c, s, pc, err) ==
    [c EXCEPT !.w[s].pc = pc, !.w[s].err = err,
              !.limit = IF c.worker > 0 THEN @ - 1 ELSE @]

\* the goroutine of a shard takes its place in the limit channel, then newShardCompactor
\* up to openFiles: the two globs
CpNewShardCompactor(s) ==
    /\ cp.pc = "run"
    /\ cp.w[s].pc = "wait"
    /\ SlotFree(cp.worker, cp.limit)
    /\ LET c == [cp EXCEPT !.limit = IF cp.worker > 0 THEN @ + 1 ELSE @]
           tsm == SortNames(Glob(cp.disk[s], TSMFileExtension))
       IN  cp' = IF Len(tsm) = 0 THEN CpEnds(c, s, "failed", "no tsm files")
                 ELSE [c EXCEPT !.w[s].pc = "open", !.w[s].tsm = tsm,
                                !.w[s].pending = Range(tsm),
                                !.w[s].tombstone =
                                    SortNames(Glob(cp.disk[s], TombstoneFileExtension))]
    /\ UNCHANGED CpOthers

\* openFiles, the goroutine of one segment: tsm1.NewTSMReader, and os.Remove of a segment
\* that does not open; with the last segment, the end of openFiles
CpOpenFile(s, f, removeFails) ==
    /\ cp.pc = "run"
    /\ cp.w[s].pc \in {"open", "failed"}
    /\ f \in cp.w[s].pending
    /\ removeFails => (~f.good /\ cp.ioErrors < MaxIoErrors)
    /\ LET w == cp.w[s]
           pending == w.pending \ {f}
           badTSM == IF f.good \/ removeFails THEN w.badTSM ELSE w.badTSM \cup {f}
           disk == IF f.good \/ removeFails THEN cp.disk[s] ELSE cp.disk[s] \ {f}
           c == [cp EXCEPT !.disk[s] = disk, !.w[s].pending = pending,
                           !.w[s].badTSM = badTSM,
                           !.ioErrors = IF removeFails THEN @ + 1 ELSE @]
       IN  cp' = IF w.pc = "failed" THEN c
                 ELSE IF removeFails THEN CpEnds(c, s, "failed", "cannot remove corrupt file")
                 ELSE IF pending # {} THEN c
                 ELSE IF Len(goodTSM(w.tsm, badTSM)) = 0
                 THEN CpEnds(c, s, "failed", "no good tsm files")
                 ELSE [c EXCEPT !.w[s].pc = "compact",
                                !.w[s].tsm = goodTSM(w.tsm, badTSM)]
    /\ UNCHANGED CpOthers

\* CompactShard: c.CompactFull(sc.tsm) writes n temporary files, or fails and leaves none;
\* a segment of the plan that has no reader aborts the compaction
CpCompactFull(s, n, fails) ==
    /\ cp.pc = "run"
    /\ cp.w[s].pc = "compact"
    /\ fails => cp.ioErrors < MaxIoErrors
    /\ n = 0 => cp.w[s].tombstone # <<>>
    /\ LET w == cp.w[s]
           files == writeNewFiles(w.tsm, n)
       IN  cp' = IF \E i \in 1..Len(w.tsm) : ~w.tsm[i].good
                 THEN CpEnds(cp, s, "failed", "bad plan")
                 ELSE IF fails
                 THEN CpEnds([cp EXCEPT !.ioErrors = @ + 1], s, "failed", "compact")
                 ELSE IF n = 0
                 THEN [cp EXCEPT !.w[s].pc = "remove"]
                 ELSE [cp EXCEPT !.w[s].pc = "rename", !.w[s].tmp = files,
                                 !.disk[s] = @ \cup Range(files)]
    /\ UNCHANGED CpOthers

\* replace, one turn of its first loop: os.Rename of a temporary file to its name
CpRename(s, fails) ==
    /\ cp.pc = "run"
    /\ cp.w[s].pc = "rename"
    /\ fails => cp.ioErrors < MaxIoErrors
    /\ LET w == cp.w[s]
           file == w.tmp[Len(w.newTSM) + 1]
           newName == [file EXCEPT !.ext = TSMFileExtension]
       IN  cp' = IF fails
                 THEN CpEnds([cp EXCEPT !.ioErrors = @ + 1], s, "failed", "rename")
                 ELSE [cp EXCEPT !.disk[s] = Rename(@, file, newName),
                                 !.w[s].newTSM = Append(@, newName),
                                 !.w[s].pc = IF Len(w.newTSM) + 1 = Len(w.tmp)
                                             THEN "remove" ELSE "rename"]
    /\ UNCHANGED CpOthers

\* replace, one turn of its removal loops: os.Remove of a segment of sc.tsm, then of a
\* tombstone, the error collected; after the last one replace and CompactShard return
CpRemove(s, fails) ==
    /\ cp.pc = "run"
    /\ cp.w[s].pc = "remove"
    /\ fails => cp.ioErrors < MaxIoErrors
    /\ LET w == cp.w[s]
           files == w.tsm \o w.tombstone
           file == files[w.removed + 1]
           errs == IF fails \/ file \notin cp.disk[s] THEN w.errs \cup {file} ELSE w.errs
           c == [cp EXCEPT !.disk[s] = IF fails THEN @ ELSE @ \ {file},
                           !.w[s].removed = @ + 1, !.w[s].errs = errs,
                           !.ioErrors = IF fails THEN @ + 1 ELSE @]
       IN  cp' = IF w.removed + 1 < Len(files) THEN c
                 ELSE IF errs # {} THEN CpEnds(c, s, "failed", "remove")
                 ELSE CpEnds(c, s, "done", "")
    /\ UNCHANGED CpOthers

\* runE: wg.Wait returns and runE returns nil
CpReturn ==
    /\ cp.pc = "run"
    /\ \A s \in CpShards : cp.w[s].pc \in {"done", "failed"}
    /\ cp' = [cp EXCEPT !.pc = "done", !.err = ""]
    /\ UNCHANGED CpOthers

NextCp ==
    \/ \E force \in BOOLEAN, text \in CpAnswers, scanErr \in BOOLEAN, worker \in CpWorkers :
          CpRunE(force, text, scanErr, worker)
    \/ \E s \in CpShards : CpNewShardCompactor(s)
    \/ \E s \in CpShards, removeFails \in BOOLEAN :
          \E f \in cp.w[s].pending : CpOpenFile(s, f, removeFails)
    \/ \E s \in CpShards, n \in 0..MaxOutputs, fails \in BOOLEAN : CpCompactFull(s, n, fails)
    \/ \E s \in CpShards, fails \in BOOLEAN : CpRename(s, fails)
    \/ \E s \in CpShards, fails \in BOOLEAN : CpRemove(s, fails)
    \/ CpReturn

SpecCp == InitCp /\ [][NextCp]_vars

\* the Go scheduler runs a goroutine that can take a step
SpecCpLive == InitCp /\ [][NextCp]_vars /\ WF_vars(NextCp)

\* the segments of a shard directory that open, and its tombstones, as the run found them
CpOriginals(s) ==
    {f \in cp.before[s] : f.ext = TombstoneFileExtension
                            \/ (f.ext = TSMFileExtension /\ f.good)}
\* the segments of a shard directory that do not open, as the run found them
CpCorrupt(s) == {f \in cp.before[s] : f.ext = TSMFileExtension /\ ~f.good}
\* the files a compaction of this run produced under their final names
CpNewSegments(s) == {f \in cp.disk[s] : f.ext = TSMFileExtension /\ f \notin cp.before[s]}
CpTemporaries(s) == {f \in cp.disk[s] : f.ext = TmpTSMFileExtension}

\* C15: an original segment or tombstone is removed only after every temporary output
\* was renamed; a failed rename leaves every original in place; a failed removal is
\* collected and the remaining files are still removed; a shard that succeeds holds its
\* new segments and nothing else; a new segment is never removed
C15_CompactReplacementOrder ==
    /\ [](\A s \in CpShards :
            /\ cp.w[s].err = "rename" => CpOriginals(s) \subseteq cp.disk[s]
            /\ cp.w[s].err = "remove" =>
                  /\ cp.w[s].errs # {}
                  /\ cp.disk[s] \cap CpOriginals(s) = cp.w[s].errs
                  /\ Range(cp.w[s].newTSM) \subseteq cp.disk[s]
            /\ cp.w[s].pc = "done" =>
                  /\ cp.disk[s] = Range(cp.w[s].newTSM)
                  /\ cp.disk[s] \cap cp.before[s] = {}
                  /\ \A f \in cp.disk[s] : f.ext = TSMFileExtension)
    /\ [][\A s \in CpShards :
            /\ (\E f \in CpOriginals(s) : f \in cp.disk[s] /\ f \notin cp'.disk[s]) =>
                  /\ cp.w[s].pc = "remove"
                  /\ CpTemporaries(s) = {}
                  /\ Len(cp.w[s].newTSM) = Len(cp.w[s].tmp)
                  /\ Range(cp.w[s].newTSM) \subseteq cp.disk[s]
            /\ CpNewSegments(s) \subseteq cp'.disk[s]]_vars

\* a shard whose compaction wrote two files and then replaced three originals by them
C15_Witness ==
    \E s \in CpShards :
        /\ cp.w[s].pc = "done"
        /\ Len(cp.w[s].newTSM) = 2
        /\ Cardinality(CpOriginals(s)) = 3
        /\ Cardinality(cp.disk[s]) = 2

\* the shard is past openFiles, which returned nil or found no good segment
CpOpened(s) ==
    \/ cp.w[s].pc \in {"compact", "rename", "remove", "done"}
    \/ cp.w[s].pc = "failed" /\ cp.w[s].err \in {"no good tsm files", "compact", "rename",
                                                "remove"}

\* C16: once the segments of a shard are opened, a segment that does not open is off the
\* disk and out of the compaction input, which is the segments that opened; a segment
\* that opened is removed only by replace, after the compaction and the renames; a shard
\* none of whose segments opens fails with "no good tsm files", and from then on nothing
\* is written to, renamed in or removed from its directory
C16_CorruptSegments ==
    /\ [](\A s \in CpShards :
            /\ CpOpened(s) =>
                  /\ CpCorrupt(s) \cap cp.disk[s] = {}
                  /\ cp.w[s].err # "no good tsm files" =>
                        cp.w[s].tsm = SortNames({f \in CpOriginals(s) :
                                                    f.ext = TSMFileExtension})
            /\ (cp.w[s].pc \notin {"off", "wait", "open"}
                  /\ CpCorrupt(s) # {}
                  /\ \A f \in cp.before[s] : f.ext = TSMFileExtension => ~f.good
                  /\ cp.w[s].err # "cannot remove corrupt file") =>
                  /\ cp.w[s].pc = "failed"
                  /\ cp.w[s].err = "no good tsm files"
                  /\ cp.disk[s] = cp.before[s] \ CpCorrupt(s))
    /\ [][\A s \in CpShards :
            /\ \A f \in cp.disk[s] :
                  (f.ext = TSMFileExtension /\ f.good /\ f \in cp.before[s]
                      /\ f \notin cp'.disk[s]) =>
                        (cp.w[s].pc = "remove" /\ Len(cp.w[s].newTSM) = Len(cp.w[s].tmp))
            /\ cp.w[s].err = "no good tsm files" => cp'.disk[s] = cp.disk[s]]_vars

\* a shard with a corrupt and a good segment: the corrupt one went at the opening, the good
\* one was compacted and replaced
C16_Witness ==
    \E s \in CpShards :
        /\ CpCorrupt(s) # {}
        /\ cp.w[s].pc = "done"
        /\ Len(cp.w[s].tsm) = 1
        /\ cp.w[s].newTSM # <<>>
        /\ \E t \in CpShards : cp.w[t].err = "no good tsm files"

\* the command touched a shard directory or started a goroutine on one
CpTouched == cp.disk # cp.before \/ \E s \in CpShards : cp.w[s].pc # "off"

\* C17: without --force, and with an answer other than y or Y, no shard directory is
\* touched and the command returns nil; a shard directory is touched only after --force
\* or the answer y or Y, which let the command go ahead
C17_CompactConfirmation ==
    /\ CpTouched => (cp.force \/ cp.text \in {<<"y">>, <<"Y">>})
    /\ (cp.pc # "idle" /\ cp.asked /\ cp.err # "error reading stdin"
           /\ cp.text \notin {<<"y">>, <<"Y">>}) =>
          (cp.pc = "done" /\ cp.err = "" /\ cp.disk = cp.before)
    /\ (cp.pc = "done" /\ cp.err = "" /\ (cp.force \/ cp.text \in {<<"y">>, <<"Y">>})) =>
          \A s \in CpShards : cp.w[s].pc \in {"done", "failed"}

\* the operator answered yes at the prompt: the command returned nil and every shard
\* directory is as it was
C17_Witness ==
    /\ cp.asked /\ ~cp.force
    /\ cp.text = <<"y", "e", "s">>
    /\ cp.pc = "done" /\ cp.err = ""
    /\ cp.disk = cp.before
    /\ \E s \in CpShards : \E f \in cp.disk[s] : f.ext = TSMFileExtension /\ f.good

\* C18 as stated: a command one of whose workers reported an error returns an error (the
\* process exits non-zero), and it returns nil only if no worker failed
C18_ErrorPropagation_AsStated ==
    (cp.pc = "done" /\ \E s \in CpShards : cp.w[s].pc = "failed") => cp.err # ""

(***************************************************************************)
(* Shard-key templates (the hash package with the %org and %bk variables). *)
(* NewShardTpl runs as a state machine, one step per turn of its loops, so *)
(* that its termination is a property of the model; GetKey and GetKeyV2    *)
(* are calls on the parsed template.  Offsets i and j count bytes as the   *)
(* Go code does: tpl[i:j] is SubSeq(tpl, i + 1, j).                        *)
(***************************************************************************)
ShardKeyVarOrg == <<"%", "o", "r", "g">>
ShardKeyVarBk == <<"%", "b", "k">>

\* the variables of the version before %org and %bk
ShardKeyVar_DbMm == <<ShardKeyVarDb, ShardKeyVarMm>>

ShardKeyVar == <<ShardKeyVarOrg, ShardKeyVarBk, ShardKeyVarDb, ShardKeyVarMm>>

\* NewShardTpl, the loop over ShardKeyVar at offset j: the indices of the variables found
VarsAt(tplStr, j) ==
    {k \in 1..Len(ShardKeyVar) :
        /\ j <= Len(tplStr) - Len(ShardKeyVar[k])
        /\ SubSeq(tplStr, j + 1, j + Len(ShardKeyVar[k])) = ShardKeyVar[k]}
\* the first of them, in the order of ShardKeyVar
FirstVarAt(tplStr, j) ==
    ShardKeyVar[CHOOSE k \in VarsAt(tplStr, j) : \A l \in VarsAt(tplStr, j) : k <= l]

\* the difference of one occurrence, whatever the frequency
varDiffLen_NoFrequency(st, r, v) == Len(r) - Len(v)

\* st.varDiffLen / st.varByteDiffLen
varDiffLen(st, r, v) == (Len(r) - Len(v)) * st.freq[v]

RECURSIVE Concat(_)
Concat(seqs) == IF seqs = <<>> THEN <<>> ELSE Head(seqs) \o Concat(Tail(seqs))

\* the argument of b.Grow in GetKey
GetKeyGrow(st, db, mm) ==
    Len(st.tpl) + varDiffLen(st, db, ShardKeyVarDb) + varDiffLen(st, mm, ShardKeyVarMm)

\* the measurement is written for %db too
ShardTpl_GetKey_MmForDb(st, db, mm) ==
    LET write(part) == IF part = ShardKeyVarDb THEN mm
                       ELSE IF part = ShardKeyVarMm THEN mm
                       ELSE part
    IN  Concat([k \in 1..Len(st.parts) |-> write(st.parts[k])])

\* ShardTpl.GetKey(db, mm)
ShardTpl_GetKey(st, db, mm) ==
    LET write(part) == IF part = ShardKeyVarDb THEN db
                       ELSE IF part = ShardKeyVarMm THEN mm
                       ELSE part
    IN  Concat([k \in 1..Len(st.parts) |-> write(st.parts[k])])

\* the argument of b.Grow in GetKeyV2
GetKeyV2Grow(st, org, bk, mm) ==
    Len(st.tpl) + varDiffLen(st, org, ShardKeyVarOrg) + varDiffLen(st, bk, ShardKeyVarBk)
        + varDiffLen(st, mm, ShardKeyVarMm)

\* ShardTpl.GetKeyV2(org, bk, mm)
ShardTpl_GetKeyV2(st, org, bk, mm) ==
    LET write(part) == IF part = ShardKeyVarOrg THEN org
                       ELSE IF part = ShardKeyVarBk THEN bk
                       ELSE IF part = ShardKeyVarMm THEN mm
                       ELSE part
    IN  Concat([k \in 1..Len(st.parts) |-> write(st.parts[k])])

\* most pieces a template of the model is put together from
MaxPieces == 3

\* the pieces: the four variables, a lone %, the beginning of a variable, and literals
TplPieces == {ShardKeyVarOrg, ShardKeyVarBk, ShardKeyVarDb, ShardKeyVarMm,
              <<"%">>, <<"%", "d">>, <<"b">>, <<"-">>}

TplExample == <<"s", "h", "a", "r", "d", "-", "%", "m", "m", "-", "%", "d", "b", "-", "%", "m",
    "m", "-", "%", "d", "b", "-", "k", "e", "y">>

\* the default of --shard-key
DefaultShardKey == <<"%", "d", "b", ",", "%", "m", "m">>

Templates ==
    {Concat(ps) : ps \in UNION {[1..n -> TplPieces] : n \in 0..MaxPieces}}
        \cup {TplExample, DefaultShardKey}

\* the values of the variables; some hold a variable themselves
TplDbs == {<<"d">>, ShardKeyVarMm, <<"d", "a", "t", "a", "b", "a", "s", "e">>}
TplMms == {<<>>, <<"m">>, ShardKeyVarDb, <<"m", "e", "a", "s", "u", "r", "e", "m", "e", "n", "t">>}
TplOrgs == {<<"o">>, ShardKeyVarBk}
TplBks == {<<"k">>, ShardKeyVarMm}

NoCall == [fn |-> "", vars |-> <<>>, grow |-> 0, key |-> <<>>]

InitTpl ==
    /\ \E t \in Templates :
          stpl = [pc |-> "new", tpl |-> t, i |-> 0, j |-> 0, parts |-> <<>>,
                  freq |-> <<>>, call |-> NoCall]
    /\ plan = PlanIdle
    /\ rpm = RpmIdle
    /\ sg = SgIdle
    /\ xfer = XferIdle
    /\ HashIdle
    /\ dt = DtIdle
    /\ cp = CpIdle
    /\ tcmd = CmdIdle /\ rel = RelIdle /\ opn = OpnIdle

TplOthers == <<plan, rpm, sg, xfer, routers, calls, returned, dt, cp, tcmd, rel, opn>>

\* NewShardTpl up to its loops: the template and the zeroed frequency map
TplNewShardTpl ==
    /\ stpl.pc = "new"
    /\ stpl' = [stpl EXCEPT !.pc = "outer", !.i = 0,
                            !.freq = [v \in Range(ShardKeyVar) |-> 0]]
    /\ UNCHANGED TplOthers

\* the test of the outer loop: into the inner loop with j := i, or return st
TplOuter ==
    /\ stpl.pc = "outer"
    /\ stpl' = IF stpl.i < Len(stpl.tpl)
               THEN [stpl EXCEPT !.pc = "inner", !.j = stpl.i]
               ELSE [stpl EXCEPT !.pc = "parsed"]
    /\ UNCHANGED TplOthers

\* one turn of the inner loop
TplInner ==
    /\ stpl.pc = "inner"
    /\ LET tplStr == stpl.tpl
           i == stpl.i
           j == stpl.j
       IN  stpl' =
             IF ~(j < Len(tplStr)) THEN [stpl EXCEPT !.pc = "outer"]
             ELSE IF VarsAt(tplStr, j) # {}
             THEN LET v == FirstVarAt(tplStr, j)
                      n == Len(v)
                      literal == IF j > i THEN <<SubSeq(tplStr, i + 1, j)>> ELSE <<>>
                  IN  [stpl EXCEPT !.parts = @ \o literal \o <<SubSeq(tplStr, j + 1, j + n)>>,
                                   !.freq[SubSeq(tplStr, j + 1, j + n)] = @ + 1,
                                   !.i = j + n, !.j = j + n]
             ELSE IF j + 1 = Len(tplStr)
             THEN [stpl EXCEPT !.parts = Append(@, SubSeq(tplStr, i + 1, j + 1)),
                               !.i = j + 1, !.j = j + 1, !.pc = "outer"]
             ELSE [stpl EXCEPT !.j = j + 1]
    /\ UNCHANGED TplOthers

TplSt == [tpl |-> stpl.tpl, parts |-> stpl.parts, freq |-> stpl.freq]

\* a call of GetKey on the parsed template
TplGetKey(db, mm) ==
    /\ stpl.pc = "parsed"
    /\ stpl' = [stpl EXCEPT !.call = [fn |-> "GetKey", vars |-> <<db, mm>>,
                                      grow |-> GetKeyGrow(TplSt, db, mm),
                                      key |-> ShardTpl_GetKey(TplSt, db, mm)]]
    /\ UNCHANGED TplOthers

\* a call of GetKeyV2 on the parsed template
TplGetKeyV2(org, bk, mm) ==
    /\ stpl.pc = "parsed"
    /\ stpl' = [stpl EXCEPT !.call = [fn |-> "GetKeyV2", vars |-> <<org, bk, mm>>,
                                      grow |-> GetKeyV2Grow(TplSt, org, bk, mm),
                                      key |-> ShardTpl_GetKeyV2(TplSt, org, bk, mm)]]
    /\ UNCHANGED TplOthers

TplParse == TplNewShardTpl \/ TplOuter \/ TplInner

NextTpl ==
    \/ TplNewShardTpl
    \/ TplOuter
    \/ TplInner
    \/ \E db \in TplDbs, mm \in TplMms : TplGetKey(db, mm)
    \/ \E org \in TplOrgs, bk \in TplBks, mm \in TplMms : TplGetKeyV2(org, bk, mm)

SpecTpl == InitTpl /\ [][NextTpl]_vars
\* NewShardTpl is sequential code: a loop turn that can be taken is taken
SpecTplLive == InitTpl /\ [][NextTpl]_vars /\ WF_vars(TplParse)

\* T with the variables of env replaced by their values, left to right, the values not
\* looked at again
RECURSIVE Substituted(_, _, _)
Substituted(t, i, env) ==
    IF i > Len(t) THEN <<>>
    ELSE IF \E v \in DOMAIN env : HasPrefixAt(t, i, v)
    THEN LET v == CHOOSE u \in DOMAIN env : HasPrefixAt(t, i, u)
         IN  env[v] \o Substituted(t, i + Len(v), env)
    ELSE <<t[i]>> \o Substituted(t, i + 1, env)

TplVars == {ShardKeyVarOrg, ShardKeyVarBk, ShardKeyVarDb, ShardKeyVarMm}
Env(org, bk, db, mm) ==
    [v \in TplVars |-> CASE v = ShardKeyVarOrg -> org [] v = ShardKeyVarBk -> bk
                         [] v = ShardKeyVarDb -> db [] v = ShardKeyVarMm -> mm]

\* C19: a key rendered from the parsed template is the template with every variable the
\* call substitutes replaced by its value, in one pass from left to right (GetKey: %db and
\* %mm; GetKeyV2: %org, %bk and %mm; the other variables stay as they are written); the
\* builder is grown by a length that is not negative; the example renders as stated
C19_TemplateRendering ==
    /\ stpl.call.fn = "GetKey" =>
          /\ stpl.call.key = Substituted(stpl.tpl, 1,
                                 Env(ShardKeyVarOrg, ShardKeyVarBk,
                                     stpl.call.vars[1], stpl.call.vars[2]))
          /\ stpl.call.grow >= 0
          /\ (stpl.tpl = TplExample /\ stpl.call.vars = <<<<"d", "a", "t", "a", "b", "a", "s",
              "e">>, <<"m", "e", "a", "s", "u", "r", "e", "m", "e", "n", "t">>>>) =>
                stpl.call.key = <<"s", "h", "a", "r", "d", "-", "m", "e", "a", "s", "u", "r",
                    "e", "m", "e", "n", "t", "-", "d", "a", "t", "a", "b", "a", "s", "e", "-",
                    "m", "e", "a", "s", "u", "r", "e", "m", "e", "n", "t", "-", "d", "a", "t",
                    "a", "b", "a", "s", "e", "-", "k", "e", "y">>
    /\ stpl.call.fn = "GetKeyV2" =>
          /\ stpl.call.key = Substituted(stpl.tpl, 1,
                                 Env(stpl.call.vars[1], stpl.call.vars[2],
                                     ShardKeyVarDb, stpl.call.vars[3]))
          /\ stpl.call.grow >= 0

\* GetKey on the example template; the key has been rendered
C19_Witness ==
    /\ stpl.call.fn = "GetKey"
    /\ stpl.tpl = TplExample
    /\ stpl.call.vars = <<<<"d", "a", "t", "a", "b", "a", "s", "e">>, <<"m", "e", "a", "s", "u",
        "r", "e", "m", "e", "n", "t">>>>
    /\ Len(stpl.call.key) > Len(stpl.tpl)

IsVar(part) == part \in TplVars
HasVar(part) == \E i \in 1..Len(part) : \E v \in TplVars : HasPrefixAt(part, i, v)

\* C20: the parse ends; its parts are non-empty and concatenate to the template; a part is
\* one variable or a literal without a variable in it, and no literal follows a literal;
\* freq counts the parts equal to each variable
C20_TemplateParsing ==
    /\ [](stpl.pc = "parsed" =>
            /\ \A k \in 1..Len(stpl.parts) :
                  /\ stpl.parts[k] # <<>>
                  /\ IsVar(stpl.parts[k]) \/ ~HasVar(stpl.parts[k])
                  /\ k < Len(stpl.parts) => (IsVar(stpl.parts[k]) \/ IsVar(stpl.parts[k + 1]))
            /\ Concat(stpl.parts) = stpl.tpl
            /\ \A v \in TplVars :
                  /\ v \in DOMAIN stpl.freq
                  /\ stpl.freq[v] = Cardinality({k \in 1..Len(stpl.parts) : stpl.parts[k] = v}))
    /\ <>(stpl.pc = "parsed")

\* a parsed template that ends in the beginning of a variable
C20_Witness ==
    /\ stpl.pc = "parsed"
    /\ stpl.tpl = ShardKeyVarBk \o <<"-">> \o <<"%", "d">>
    /\ stpl.parts = <<ShardKeyVarBk, <<"-", "%", "d">>>>
    /\ stpl.freq[ShardKeyVarBk] = 1

\* the ring entry the claim names for node i: itoa(i), "|" and itoa(i), or the scheme with
\* every %idx replaced by itoa(i)
nodeStr(scheme, i) ==
    IF scheme = <<"i", "d", "x">> THEN Itoa(i)
    ELSE IF scheme = <<"e", "x", "i">> THEN <<"|">> \o Itoa(i)
    ELSE Substituted(scheme, 1, [v \in {<<"%", "i", "d", "x">>} |-> Itoa(i)])

\* C21: the ring of a router built from (N, scheme) holds the entries nodeStr(i), i in
\* [0, N), and no other; the reverse map takes nodeStr(i) to i and is a bijection onto
\* [0, N); every node index has a point on the circle, so Get can return it
C21_RingConstruction ==
    \A r \in Routers :
        routers[r].made =>
            LET n == routers[r].nodeTotal
                ch == routers[r].ch
                entries == {nodeStr(routers[r].hashKey, i) : i \in 0..(n - 1)}
            IN  /\ Range(ch.consistent) = entries
                /\ DOMAIN ch.mapToIdx = entries
                /\ Cardinality(entries) = n
                /\ \A i \in 0..(n - 1) :
                      /\ ch.mapToIdx[nodeStr(routers[r].hashKey, i)] = i
                      /\ \E h \in DOMAIN ch.consistent : ch.mapToIdx[ch.consistent[h]] = i

\* a router of the greatest node total built from a template that holds %idx twice
C21_Witness ==
    \E r \in Routers :
        /\ routers[r].made
        /\ routers[r].nodeTotal = MaxNodes
        /\ routers[r].hashKey = HashKeyVarIdx \o <<"-">> \o HashKeyVarIdx
        /\ <<"2", "-", "2">> \in DOMAIN routers[r].ch.mapToIdx

(***************************************************************************)
(* transfer: the flags, validate, and runE from the flags to the start of  *)
(* the workers.  The disk holds the directories "<target-dir>-<idx>" and   *)
(* the directory named by --target-dir itself; a directory is its          *)
(* meta/meta.db (present or not) and the catalog stored in it.  The        *)
(* retention policy flags are the defaults: autogen, 168h, duration 0.     *)
(***************************************************************************)
\* time.Parse(time.RFC3339, s) and UnixNano, in ticks from the Unix epoch
ParseRFC3339(s) ==
    CASE s = "1969-12-31T23:30:00Z" -> [err |-> "", UnixNano |-> -1]
      [] s = "1970-01-01T00:00:00Z" -> [err |-> "", UnixNano |-> 0]
      [] s = "1970-01-01T00:30:00Z" -> [err |-> "", UnixNano |-> 1]
      [] OTHER -> [err |-> "cannot parse", UnixNano |-> 0]

\* the node-index loop of validate without its lower limit
nodeIndexInvalid_UpperOnly(nodeIndex, nodeTotal) ==
    \E idx \in nodeIndex : idx >= nodeTotal

\* for idx := range cmd.nodeIndex { if idx < 0 || idx >= cmd.nodeTotal { return ... } }
nodeIndexInvalid(nodeIndex, nodeTotal) ==
    \E idx \in nodeIndex : idx < 0 \/ idx >= nodeTotal

\* command.validate: answers [err, startTime, endTime, nodeIndex], the fields it leaves in cmd
validate(tf) ==
    LET s == ParseRFC3339(tf.start)
        e == ParseRFC3339(tf.end)
        startTime == IF tf.start # "" THEN s.UnixNano ELSE MinInt64
        endTime == IF tf.end # "" THEN e.UnixNano ELSE MaxInt64
        rejected(err) == [err |-> err, startTime |-> startTime, endTime |-> endTime,
                          nodeIndex |-> tf.nodeIndex]
    IN  IF tf.start # "" /\ s.err # "" THEN rejected("start time is invalid")
        ELSE IF tf.end # "" /\ e.err # "" THEN rejected("end time is invalid")
        ELSE IF startTime # 0 /\ endTime # 0 /\ endTime < startTime
        THEN rejected("end time before start time")
        ELSE IF tf.worker < 0 THEN rejected("worker is invalid")
        ELSE IF tf.nodeTotal <= 0 THEN rejected("node-total is invalid")
        ELSE IF nodeIndexInvalid(tf.nodeIndex, tf.nodeTotal) THEN rejected("node-index is invalid")
        ELSE IF /\ tf.hashKey # HashKeyIdx
                /\ tf.hashKey # HashKeyExi
                /\ ~Contains(tf.hashKey, HashKeyVarIdx)
        THEN rejected("hash-key is invalid")
        ELSE IF ~Contains(tf.shardKey, ShardKeyVarDb) /\ ~Contains(tf.shardKey, ShardKeyVarMm)
        THEN rejected("shard-key is invalid")
        ELSE [err |-> "", startTime |-> startTime, endTime |-> endTime,
              nodeIndex |-> IF tf.nodeIndex = {} THEN 0..(tf.nodeTotal - 1) ELSE tf.nodeIndex]

\* a server that refuses a directory whose meta/meta.db is already there
NewServer_RefuseExisting(dir, fails) ==
    IF fails \/ dir.metaDb THEN [err |-> "open", dir |-> dir]
    ELSE [err |-> "", dir |-> [dir EXCEPT !.metaDb = TRUE]]

\* server.NewServer(dir, tsi): the meta client opens the catalog of the directory, and
\* stores the catalog of a new one at once
NewServer(dir, fails) ==
    IF fails THEN [err |-> "open", dir |-> dir]
    ELSE [err |-> "", dir |-> [dir EXCEPT !.metaDb = TRUE]]

CmdStarts == {"", "yesterday", "1969-12-31T23:30:00Z", "1970-01-01T00:00:00Z",
              "1970-01-01T00:30:00Z"}
CmdEnds == CmdStarts
CmdWorkers == {-1, 0, 1}
CmdNodeTotals == {0, 1, 2}
CmdNodes == {0, 1}
CmdNodeIndexes == {{}, {0}, {1}, {0, 1}, {-1, 0}, {2}}
CmdHashKeys == {HashKeyIdx, HashKeyExi, <<"n">> \o HashKeyVarIdx, <<"i", "d">>}
CmdShardKeys == {ShardKeyVarDb \o <<",">> \o ShardKeyVarMm, ShardKeyVarMm, <<"k">>}
CmdFlags ==
    [start : CmdStarts, end : CmdEnds, worker : CmdWorkers, nodeTotal : CmdNodeTotals,
     nodeIndex : CmdNodeIndexes, hashKey : CmdHashKeys, shardKey : CmdShardKeys]
CmdRp == "autogen"
CmdShardDuration == 7 * Day
CmdDuration == 0

\* a target directory as a run may find it: not there, left by an earlier run with the
\* same flags, or left by an earlier run with --shard-duration 24h
CmdNoDir == [metaDb |-> FALSE, data |-> EmptyData]
CmdDirStates ==
    {CmdNoDir,
     [metaDb |-> TRUE, data |-> newImporter(EmptyData, CmdRp, CmdShardDuration, CmdDuration).data],
     [metaDb |-> TRUE, data |-> newImporter(EmptyData, CmdRp, Day, CmdDuration).data]}

CmdNoFlags ==
    [start |-> "", end |-> "", worker |-> 0, nodeTotal |-> 0, nodeIndex |-> {},
     hashKey |-> <<>>, shardKey |-> <<>>]

InitCmd ==
    /\ \E nodes \in [CmdNodes -> CmdDirStates], targetDir \in BOOLEAN :
          tcmd = [pc |-> "idle",
                  disk |-> [targetDir |-> targetDir, nodes |-> nodes],
                  before |-> [targetDir |-> targetDir, nodes |-> nodes],
                  flags |-> CmdNoFlags, startTime |-> 0, endTime |-> 0, nodeIndex |-> {},
                  source |-> FALSE, servers |-> {}, imps |-> {}, io |-> "", started |-> FALSE, err |-> ""]
    /\ plan = PlanIdle
    /\ rpm = RpmIdle
    /\ sg = SgIdle
    /\ xfer = XferIdle
    /\ HashIdle
    /\ dt = DtIdle
    /\ cp = CpIdle
    /\ stpl = TplIdle
    /\ rel = RelIdle
    /\ opn = OpnIdle

CmdOthers == <<plan, rpm, sg, xfer, routers, calls, returned, dt, cp, stpl, rel, opn>>

\* runE: validate, and the return of its error
CmdRunE(tf) ==
    /\ tcmd.pc = "idle"
    /\ LET v == validate(tf)
       IN  tcmd' = [tcmd EXCEPT !.pc = IF v.err # "" THEN "done" ELSE "source",
                                !.flags = tf, !.err = v.err,
                                !.startTime = v.startTime, !.endTime = v.endTime,
                                !.nodeIndex = v.nodeIndex]
    /\ UNCHANGED CmdOthers

\* server.NewServer(cmd.sourceDir) and newExporter
CmdOpenSource(outcome) ==
    /\ tcmd.pc = "source"
    /\ tcmd' = [tcmd EXCEPT !.source = TRUE,
                            !.pc = IF outcome = "ok" THEN "targets" ELSE "done",
                            !.io = IF outcome = "ok" THEN "" ELSE outcome,
                            !.err = IF outcome = "ok" THEN "" ELSE outcome]
    /\ UNCHANGED CmdOthers

\* one round of the loop over cmd.nodeIndex, a map: server.NewServer on "<target-dir>-<idx>",
\* then newImporter on its catalog
CmdOpenTarget(idx, fails) ==
    /\ tcmd.pc = "targets"
    /\ idx \in tcmd.nodeIndex \ tcmd.imps
    /\ LET svr == NewServer(tcmd.disk.nodes[idx], fails)
           imp == newImporter(svr.dir.data, CmdRp, CmdShardDuration, CmdDuration)
       IN  IF svr.err # ""
           THEN tcmd' = [tcmd EXCEPT !.servers = @ \cup {idx}, !.pc = "done",
                                     !.io = IF fails THEN svr.err ELSE @, !.err = svr.err]
           ELSE tcmd' = [tcmd EXCEPT
                    !.servers = @ \cup {idx},
                    !.disk.nodes[idx] = [svr.dir EXCEPT !.data = imp.data],
                    !.pc = IF imp.err # "" THEN "done" ELSE @,
                    !.imps = IF imp.err # "" THEN @ ELSE @ \cup {idx},
                    !.err = imp.err]
    /\ UNCHANGED CmdOthers

\* cmd.transfer(exp, imps); return nil
CmdTransfer ==
    /\ tcmd.pc = "targets"
    /\ tcmd.imps = tcmd.nodeIndex
    /\ tcmd' = [tcmd EXCEPT !.pc = "done", !.started = TRUE, !.err = ""]
    /\ UNCHANGED CmdOthers

NextCmd ==
    \/ tcmd.pc = "idle" /\ \E tf \in CmdFlags : CmdRunE(tf)
    \/ \E outcome \in {"ok", "server", "exporter"} : CmdOpenSource(outcome)
    \/ \E idx \in CmdNodes, fails \in BOOLEAN : CmdOpenTarget(idx, fails)
    \/ CmdTransfer

SpecCmd == InitCmd /\ [][NextCmd]_vars

(***************************************************************************)
(* Claims C22 to C24: the flags of transfer and the target directories     *)
(***************************************************************************)
\* the directories of the run's node indices that held meta/meta.db before the run
CmdFound == {idx \in tcmd.nodeIndex \cap CmdNodes : tcmd.before.nodes[idx].metaDb}

CmdMismatch(idx) ==
    /\ tcmd.before.nodes[idx].metaDb
    /\ tcmd.before.nodes[idx].data.RetentionPolicies[CmdRp].ShardGroupDuration
           # CmdShardDuration

CmdGiven(text) == text # "" /\ ParseRFC3339(text).err = ""

\* C23 as stated: when both times are given and the end is earlier than the start, the run
\* ends with an error, no server opened and no worker started
C23_TimeRange_AsStated ==
    (/\ tcmd.pc # "idle"
     /\ CmdGiven(tcmd.flags.start)
     /\ CmdGiven(tcmd.flags.end)
     /\ ParseRFC3339(tcmd.flags.end).UnixNano < ParseRFC3339(tcmd.flags.start).UnixNano) =>
        (tcmd.pc = "done" /\ tcmd.err # "" /\ ~tcmd.source /\ ~tcmd.started)

\* the flags C24 names as rejected
CmdHasSub(text, v) == \E i \in 1..(Len(text) - Len(v) + 1) : SubSeq(text, i, i + Len(v) - 1) = v
CmdBadFlags(f) ==
    \/ f.worker < 0
    \/ f.nodeTotal <= 0
    \/ \E idx \in f.nodeIndex : ~(0 <= idx /\ idx < f.nodeTotal)
    \/ (f.hashKey # <<"i", "d", "x">> /\ f.hashKey # <<"e", "x", "i">>
            /\ ~CmdHasSub(f.hashKey, <<"%", "i", "d", "x">>))
    \/ (~CmdHasSub(f.shardKey, <<"%", "d", "b">>) /\ ~CmdHasSub(f.shardKey, <<"%", "m", "m">>))

\* C24: a run with a rejected flag has ended with an error, no server opened, the disk as
\* it was and no worker started; a run that went past validate without a node index given
\* works on 0..nodeTotal-1
C24_ValidationBeforeWork ==
    tcmd.pc # "idle" =>
        /\ CmdBadFlags(tcmd.flags) =>
              /\ tcmd.pc = "done"
              /\ tcmd.err # ""
              /\ ~tcmd.source
              /\ tcmd.servers = {}
              /\ tcmd.imps = {}
              /\ tcmd.disk = tcmd.before
              /\ ~tcmd.started
        /\ ((tcmd.pc = "source" \/ tcmd.source) /\ tcmd.flags.nodeIndex = {}) =>
              tcmd.nodeIndex = {idx \in CmdNodes : idx < tcmd.flags.nodeTotal}

C24_Witness ==
    /\ tcmd.pc = "done"
    /\ tcmd.err = "node-index is invalid"
    /\ tcmd.flags.nodeIndex = {-1, 0}
    /\ tcmd.flags.nodeTotal = 2
    /\ ~tcmd.source
    /\ ~tcmd.before.nodes[0].metaDb

(***************************************************************************)
(* Claims C25 to C30: the goroutines of a transfer run                     *)
(***************************************************************************)
\* C25 as stated: under fair scheduling every run ends with transfer reporting completion
C25_TransferTermination_AsStated ==
    (xfer.pc = "run") ~> (xfer.pc = "idle" /\ xfer.exit = "0")

\* every run ends, and it ends with transfer reporting completion unless the process
\* panicked on the nil shard writer: no goroutine waits forever
XferEndsUnlessPanic ==
    (xfer.pc = "run") ~> (xfer.pc = "idle" /\ (xfer.exit = "0" \/ xfer.panic = "nil shard writer"))

\* the run is over: every transferNode has returned
XferNodesDone == xfer.pc = "run" /\ \A n \in DOMAIN xfer.nodes : xfer.nodes[n] = "done"

\* the kept series of target group g that the router gives to node n
KeptSeries(g, n) ==
    {e \in ResultSetOf(g) : ~SeriesNeedsEscaping(e.Name, e.Tags) /\ NodeOf(e.Name) = n}

\* the series e of target group g is on the stream to node n, and once the import
\* goroutine of the stream has ended, in the shard of node n
Delivered(g, n, e) ==
    /\ <<g, n>> \in DOMAIN xfer.pipes
    /\ \E f \in SeriesFrames(<<g, n>>) :
          f.SeriesKey = MakeKey(e.Name, e.Tags) /\ f.Values = e.Values
    /\ xfer.pipes[<<g, n>>].pc = "done" =>
          \A v \in e.Values : \E pt \in TargetPoints(n) :
              /\ pt.SeriesKey = MakeKey(e.Name, e.Tags)
              /\ pt.ts = v[1]
              /\ pt.value = v[2]

\* the target groups whose export goroutine or one of whose import goroutines failed
FailedGroups ==
    {g \in DOMAIN xfer.exp :
        \/ xfer.exp[g].pc = "failed"
        \/ \E p \in DOMAIN xfer.pipes : p[1] = g /\ xfer.pipes[p].pc = "failed"}

\* the shards of a compact run whose goroutine failed
CpFailedShards == {s \in CpShards : cp.pc \in {"run", "done"} /\ cp.w[s].pc = "failed"}

C27_StreamFailureScope_AsStated ==
    xfer.pc = "run" =>
        \A p \in DOMAIN xfer.pipes : xfer.pipes[p].pc = "failed" =>
            \A n \in xfer.nodeIndex \ {p[2]} :
                xfer.exp[p[1]].pc \in {"done", "failed"} =>
                    /\ \A e \in KeptSeries(p[1], n) : Delivered(p[1], n, e)
                    /\ <<p[1], n>> \in DOMAIN xfer.pipes => xfer.pipes[<<p[1], n>>].closed

\* C28: a channel is closed at most once, and only when every export goroutine has
\* ended; no run panics on a send to a closed channel; a transferNode that has returned
\* has left nothing in its channel and has started an import goroutine for every reader
\* sent to it; when the run is over every channel is closed
C28_ChannelCloseSafety ==
    /\ xfer.panic # "send on closed channel"
    /\ xfer.pc = "run" =>
          \A n \in DOMAIN xfer.chans :
              /\ xfer.closes[n] <= 1
              /\ xfer.closes[n] > 0 =>
                    \A g \in DOMAIN xfer.exp : xfer.exp[g].pc \in {"done", "failed"}
              /\ xfer.nodes[n] = "done" =>
                    /\ xfer.closes[n] = 1
                    /\ xfer.chans[n] = <<>>
                    /\ \A p \in DOMAIN xfer.pipes :
                          (p[2] = n /\ p[1] \in DOMAIN xfer.exp /\ n \in xfer.exp[p[1]].bws) =>
                              xfer.pipes[p].pc \in {"done", "failed"}

C28_Witness ==
    /\ XferNodesDone
    /\ xfer.nodeIndex = XferNodes
    /\ \A n \in XferNodes : xfer.closes[n] = 1
    /\ \A n \in XferNodes : \E p \in DOMAIN xfer.pipes : p[2] = n /\ xfer.pipes[p].pc = "done"
    /\ Cardinality(DOMAIN xfer.exp) = 2

\* the import goroutines that hold an open shard writer
XferWriting == {p \in DOMAIN xfer.pipes : xfer.pipes[p].pc = "series"}

C30_SingleClose_AsStated ==
    /\ \A p \in DOMAIN xfer.pipes :
          (xfer.pipes[p].pc \in {"done", "failed"} /\ xfer.pipes[p].shardID # 0) =>
              /\ xfer.pipes[p].shCloses = 1
              /\ xfer.pipes[p].swCloses = 1
              /\ ~xfer.pipes[p].nilClose
    /\ \A e \in xfer.errors : e.shCloses = 1 /\ e.swCloses = 1 /\ ~e.nilClose

(***************************************************************************)
(* What the goroutines of one target group hold open.  One goroutine of    *)
(* WriteTo runs writeBucket over a result set whose series are already     *)
(* routed; transferNode starts an import goroutine for every reader sent.  *)
(* A handle is "none" (never made), "open" or "closed".  The header of the *)
(* streams is the exporter's (db, rp, sd); the importer works on the       *)
(* policy newImporter found or made.                                       *)
(***************************************************************************)
\* the longest result set of the target group
RelMaxSeries == 3

RelNodes == {0, 1}
\* the result sets: the node of each series, in key order
RelResultSets == UNION {[1..k -> RelNodes] : k \in 0..RelMaxSeries}
\* --retention-policy: the default autogen, and the empty name
RelRps == {"autogen", ""}
\* --shard-duration
RelShardDurations == {Day, 7 * Day}
\* the default retention policy of the source database
RelSourceDefaults == {"autogen", "rp1"}

\* no header read yet
RelNoHeader == [db |-> <<>>, rp |-> "", sd |-> 0]
RelNoHandles == [pw |-> "none", wr |-> "none", bw |-> "none", pr |-> "none", written |-> 0]
RelNoImport == [pc |-> "none", sh |-> "none", sw |-> "none", shCloses |-> 0, swCloses |-> 0,
                nilClose |-> FALSE, read |-> 0, hdr |-> RelNoHeader, shardID |-> 0, err |-> ""]

\* newExporter: an empty rp is replaced by the source's default policy; binary.NewWriter
\* puts (e.db, e.rp, e.sd) into the header of every stream
StreamHeader(rp, sd, sourceDefault) ==
    [db |-> Database, rp |-> IF rp = "" THEN sourceDefault ELSE rp, sd |-> sd]

\* runE on fresh target directories: the exporter and an importer per node, then transfer
InitRel ==
    /\ \E rs \in RelResultSets, rp \in RelRps, sd \in RelShardDurations,
          sourceDefault \in RelSourceDefaults :
          LET imp == newImporter(EmptyData, rp, sd, CmdDuration)
          IN  /\ imp.err = ""
              /\ rel = [pc |-> "run", rs |-> rs, rp |-> rp, sd |-> sd,
                        hdr |-> StreamHeader(rp, sd, sourceDefault),
                        rpi |-> imp.rpi,
                        exp |-> [pc |-> "start", store |-> "none", res |-> "none", i |-> 0,
                                 err |-> ""],
                        w |-> [n \in RelNodes |-> RelNoHandles],
                        imp |-> [n \in RelNodes |-> RelNoImport],
                        data |-> [n \in RelNodes |-> imp.data]]
    /\ plan = PlanIdle
    /\ rpm = RpmIdle
    /\ sg = SgIdle
    /\ xfer = XferIdle
    /\ HashIdle
    /\ dt = DtIdle
    /\ cp = CpIdle
    /\ stpl = TplIdle
    /\ tcmd = CmdIdle
    /\ opn = OpnIdle

RelOthers == <<plan, rpm, sg, xfer, routers, calls, returned, dt, cp, stpl, tcmd, opn>>

\* a handle after Close
Closed(h) == IF h = "none" THEN "none" ELSE "closed"

\* the deferred function of writeBucket: bw.Close, wr.Close, pw.Close for what is in
\* bws, wrs, pws
CloseWriters(w) ==
    [n \in DOMAIN w |-> [w[n] EXCEPT !.bw = Closed(@), !.wr = Closed(@), !.pw = Closed(@)]]

\* WriteTo's goroutine: newExportWorker and ew.Open
RelExpOpen(fails) ==
    /\ rel.pc = "run"
    /\ rel.exp.pc = "start"
    /\ rel' = IF fails THEN [rel EXCEPT !.exp.pc = "returned", !.exp.err = "open"]
              ELSE [rel EXCEPT !.exp.pc = "opened", !.exp.store = "open"]
    /\ UNCHANGED RelOthers

\* ew.read: on an error or a nil result set the goroutine returns through the deferred
\* ew.Close
RelExpRead(outcome) ==
    /\ rel.pc = "run"
    /\ rel.exp.pc = "opened"
    /\ rel' = IF outcome = "ok"
              THEN [rel EXCEPT !.exp.pc = "bucket", !.exp.res = "open"]
              ELSE [rel EXCEPT !.exp.pc = "returned", !.exp.err = outcome,
                               !.exp.store = "closed"]
    /\ UNCHANGED RelOthers

\* the goroutine returns from writeBucket: its deferred closes, then rs.Close and ew.Close
RelExpReturned(r, err) ==
    [r EXCEPT !.exp.pc = "returned", !.exp.err = err, !.exp.res = "closed",
              !.exp.store = "closed", !.w = CloseWriters(r.w)]

\* writeBucket, one turn of its loop for a series routed to a requested node
RelExpSeries(outcome) ==
    /\ rel.pc = "run"
    /\ rel.exp.pc = "bucket"
    /\ rel.exp.i < Len(rel.rs)
    /\ LET n == rel.rs[rel.exp.i + 1]
           bok == rel.w[n].bw # "none"
           \* pr, pw := nio.Pipe(buf); pws[n] = pw; wr := binary.NewWriter(...); wrs[n] = wr
           made == IF bok THEN rel
                   ELSE [rel EXCEPT !.w[n].pr = "open", !.w[n].pw = "open", !.w[n].wr = "open"]
           \* bws[n] = bw; prChan <- pr
           sent == IF bok THEN rel
                   ELSE [made EXCEPT !.w[n].bw = "open", !.w[n].pr = "sent"]
       IN  CASE outcome = "bucket" -> ~bok /\ rel' = RelExpReturned(made, "bucket")
             [] outcome = "write" ->
                    /\ rel.imp[n].pc = "returned"
                    /\ rel' = RelExpReturned(sent, "write")
             [] outcome = "ok" ->
                    rel' = [sent EXCEPT !.exp.i = @ + 1, !.w[n].written = @ + 1]
    /\ UNCHANGED RelOthers

\* rs.Next() is false: writeBucket returns nil
RelExpDone ==
    /\ rel.pc = "run"
    /\ rel.exp.pc = "bucket"
    /\ rel.exp.i = Len(rel.rs)
    /\ rel' = RelExpReturned(rel, "")
    /\ UNCHANGED RelOthers

\* the import goroutine returns: the deferred pr.Close()
RelImpReturned(r, n, err) ==
    [r EXCEPT !.imp[n].pc = "returned", !.imp[n].err = err, !.w[n].pr = "closed"]

\* transferNode receives the reader of node n and its goroutine reads the header; the
\* header is dropped (_, err := reader.ReadHeader())
RelImpHeader(n, fails) ==
    /\ rel.pc = "run"
    /\ rel.w[n].pr = "sent"
    /\ rel.imp[n].pc = "none"
    /\ rel' = IF fails THEN RelImpReturned(rel, n, "header")
              ELSE [rel EXCEPT !.imp[n].pc = "header", !.imp[n].hdr = rel.hdr,
                               !.imp[n].err = ""]
    /\ UNCHANGED RelOthers

\* reader.NextBucket and ImportShard up to the return of StartShardGroup.  StartShardGroup
\* fails before it makes the shard writer ("lookup"), or in startSeriesFile after it made
\* it ("seriesfile")
RelImpBucket(n, outcome) ==
    /\ rel.pc = "run"
    /\ rel.imp[n].pc = "header"
    /\ LET r == StartShardGroup(rel.data[n], rel.rpi.Name, 0, rel.sd)
       IN  CASE outcome = "next" -> rel' = RelImpReturned(rel, n, "next bucket")
             [] outcome = "lookup" -> rel' = RelImpReturned(rel, n, "import shard")
             [] outcome = "seriesfile" ->
                    /\ r.err = ""
                    /\ rel' = RelImpReturned([rel EXCEPT !.imp[n].sh = "open",
                                                         !.imp[n].shardID = r.shardID,
                                                         !.data[n] = r.data],
                                             n, "import shard")
             [] outcome = "ok" ->
                    IF r.err # "" THEN rel' = RelImpReturned(rel, n, "import shard")
                    ELSE rel' = [rel EXCEPT !.imp[n].pc = "series", !.imp[n].sh = "open",
                                            !.imp[n].sw = "open",
                                            !.imp[n].shardID = r.shardID,
                                            !.data[n] = r.data]
    /\ UNCHANGED RelOthers

\* CloseShardGroup: closeSeriesFile, i.sh.Close(), i.sh = nil
RelCloseShardGroup(i) ==
    [i EXCEPT !.sw = "closed", !.swCloses = @ + 1,
              !.sh = IF @ = "open" THEN "closed" ELSE @,
              !.shCloses = IF i.sh = "open" THEN @ + 1 ELSE @,
              !.nilClose = @ \/ i.sh # "open"]

\* ImportShard, one turn of its loop.  On a write error Write closes the shard group and
\* ImportShard closes it once more, on the nil shard writer, where the process may panic
RelImpSeries(n, outcome, panics) ==
    /\ rel.pc = "run"
    /\ rel.imp[n].pc = "series"
    /\ rel.imp[n].read < rel.w[n].written
    /\ CASE outcome = "ok" -> ~panics /\ rel' = [rel EXCEPT !.imp[n].read = @ + 1]
         [] outcome = "read" ->
                /\ ~panics
                /\ rel' = RelImpReturned(
                       [rel EXCEPT !.imp[n] = RelCloseShardGroup(@)], n, "import shard")
         [] outcome = "write" ->
                LET twice == [rel EXCEPT !.imp[n] = RelCloseShardGroup(RelCloseShardGroup(@))]
                IN  rel' = IF panics THEN [twice EXCEPT !.pc = "panic"]
                           ELSE RelImpReturned(twice, n, "import shard")
    /\ UNCHANGED RelOthers

\* the stream ends: NextSeries answers nil, ImportShard closes the shard group, NextBucket
\* answers nil and the goroutine returns
RelImpEnd(n) ==
    /\ rel.pc = "run"
    /\ rel.imp[n].pc = "series"
    /\ rel.imp[n].read = rel.w[n].written
    /\ rel.w[n].pw = "closed"
    /\ rel' = RelImpReturned([rel EXCEPT !.imp[n] = RelCloseShardGroup(@)], n, "")
    /\ UNCHANGED RelOthers

NextRel ==
    \/ \E fails \in BOOLEAN : RelExpOpen(fails)
    \/ \E outcome \in {"ok", "read", "nil"} : RelExpRead(outcome)
    \/ \E outcome \in {"ok", "bucket", "write"} : RelExpSeries(outcome)
    \/ RelExpDone
    \/ \E n \in RelNodes, fails \in BOOLEAN : RelImpHeader(n, fails)
    \/ \E n \in RelNodes, outcome \in {"ok", "next", "lookup", "seriesfile"} :
          RelImpBucket(n, outcome)
    \/ \E n \in RelNodes, outcome \in {"ok", "read", "write"}, panics \in BOOLEAN :
          RelImpSeries(n, outcome, panics)
    \/ \E n \in RelNodes : RelImpEnd(n)

SpecRel == InitRel /\ [][NextRel]_vars

\* C31 as stated: an export goroutine that has returned holds no open store, result set,
\* bucket, framed writer or pipe writer and has left no reader that it made unsent and
\* open; an import goroutine that has returned holds no open reader, shard writer or
\* series writer
C31_ScopedRelease_AsStated ==
    /\ rel.pc = "run" /\ rel.exp.pc = "returned" =>
          /\ rel.exp.store # "open"
          /\ rel.exp.res # "open"
          /\ \A n \in RelNodes :
                /\ rel.w[n].bw # "open"
                /\ rel.w[n].wr # "open"
                /\ rel.w[n].pw # "open"
                /\ rel.w[n].pr # "open"
    /\ \A n \in RelNodes : (rel.pc = "run" /\ rel.imp[n].pc = "returned") =>
          /\ rel.w[n].pr = "closed"
          /\ rel.imp[n].sh # "open"
          /\ rel.imp[n].sw # "open"

\* the importer's (db, rp, shard-group duration)
ImporterHeader == [db |-> Database, rp |-> rel.rpi.Name, sd |-> rel.rpi.ShardGroupDuration]

\* C35 as stated: an import goroutine that went on to a bucket of its stream had read a
\* header equal to the importer's (db, rp, shard-group duration)
C35_HeaderAgreement_AsStated ==
    \A n \in RelNodes :
        (rel.pc = "run" /\ rel.imp[n].shardID # 0) => rel.imp[n].hdr = ImporterHeader

(***************************************************************************)
(* The streams of a target group, as SpecXfer makes them                   *)
(***************************************************************************)
\* the frames of a stream that are series
IsSeriesFrame(f) == "SeriesKey" \in DOMAIN f

\* the node of every measurement of the sources
XferNodeOf == [name \in {XferSeries[i].Name : i \in DOMAIN XferSeries} |-> NodeOf(name)]

\* the kept series of target group g routed to node n, in the order of the result set
KeptSeq(g, n) ==
    SelectSeq(read(Sources[xfer.src], xfer.sourceGroups,
                   xfer.targetGroups[g].StartTime, xfer.targetGroups[g].EndTime - 1),
              LAMBDA e : ~SeriesNeedsEscaping(e.Name, e.Tags) /\ XferNodeOf[e.Name] = n)

\* the shard groups of target node n, and those that hold the start of a window of
\* which a series was written to a stream of node n
XferGroupsOf(n) ==
    IF XferRp \in DOMAIN xfer.targets[n].data.RetentionPolicies
    THEN Range(CatalogGroups(n)) ELSE {}
CatalogShardIDsOf(n) == {sgi.Shards[j].ID : sgi \in XferGroupsOf(n), j \in {1}}
XferWindowsSent(n) == {s.min : s \in {t \in xfer.sent : t.node = n}}

\* C32: a reader is in the channel of its own node, once, and only before transferNode
\* received it; a stream exists only for a requested node, begins with one header and
\* one bucket header followed by the first kept series of the group routed to the node,
\* and holds no second header; every shard group and shard directory of a target node
\* holds the start of a window of which a series was sent to that node
C32_LazyStream ==
    xfer.pc = "run" =>
        /\ \A n \in DOMAIN xfer.chans :
              /\ \A i, j \in DOMAIN xfer.chans[n] : xfer.chans[n][i] = xfer.chans[n][j] => i = j
              /\ \A i \in DOMAIN xfer.chans[n] :
                    /\ xfer.chans[n][i][2] = n
                    /\ xfer.pipes[xfer.chans[n][i]].pc = "queued"
        /\ \A p \in DOMAIN xfer.pipes :
              /\ p[2] \in xfer.nodeIndex
              /\ xfer.pipes[p].pc = "queued" => p \in Range(xfer.chans[p[2]])
              /\ Len(xfer.pipes[p].frames) >= 3
              /\ \A i \in 3..Len(xfer.pipes[p].frames) : IsSeriesFrame(xfer.pipes[p].frames[i])
              /\ \E kept \in {KeptSeq(p[1], p[2])} :
                    /\ kept # <<>>
                    /\ xfer.pipes[p].frames[3].SeriesKey = MakeKey(kept[1].Name, kept[1].Tags)
                    /\ Len(xfer.pipes[p].frames) - 2 <= Len(kept)
        /\ \A n \in XferNodes :
              /\ \A sgi \in XferGroupsOf(n) :
                    \E min \in XferWindowsSent(n) : sgi.StartTime <= min /\ min < sgi.EndTime
              /\ DOMAIN xfer.targets[n].shards \subseteq CatalogShardIDsOf(n)

\* a run on both nodes is over in which a group with a discarded series sent a stream
\* to node 0 and none to node 1
C32_Witness ==
    /\ XferNodesDone
    /\ xfer.nodeIndex = XferNodes
    /\ \E g \in DOMAIN xfer.exp :
          /\ xfer.exp[g].pc = "done"
          /\ <<g, 0>> \in DOMAIN xfer.pipes
          /\ xfer.pipes[<<g, 0>>].pc = "done"
          /\ <<g, 1>> \notin DOMAIN xfer.pipes
          /\ \E e \in ResultSetOf(g) : SeriesNeedsEscaping(e.Name, e.Tags)

(***************************************************************************)
(* The limit channel of WriteTo and of compact's runE                      *)
(***************************************************************************)
\* the goroutine of target group g, or of shard s, waits for a place in limit
XferQueued(g) == xfer.pc = "run" /\ g \in DOMAIN xfer.exp /\ xfer.exp[g].pc = "wait"
CpQueued(s) == cp.pc = "run" /\ cp.w[s].pc = "wait"
\* the shards whose goroutine is between its send to limit and its return
CpBusy == {s \in CpShards : cp.w[s].pc \in {"open", "compact", "rename", "remove"}}

C33_XferWitness ==
    /\ xfer.pc = "run"
    /\ xfer.worker = 1
    /\ \E g, h \in DOMAIN xfer.exp : xfer.exp[g].pc = "run" /\ xfer.exp[h].pc = "wait"

(***************************************************************************)
(* The plan against the whole of the source                                *)
(***************************************************************************)
\* the instants of the source shard groups that lie in the requested range
PlanSourceInstants ==
    {t \in UNION {g.StartTime..(g.EndTime - 1) : g \in Range(plan.sourceShards)} :
        plan.start <= t /\ t <= plan.end}

\* the emitted windows that hold instant t, which are the windows whose goroutine reads
\* t in its range [StartTime, EndTime - 1]
PlanWindowsOf(t) ==
    {i \in DOMAIN plan.target : plan.target[i].StartTime <= t /\ t <= plan.target[i].EndTime - 1}

\* C34 as stated: every instant of a source shard group in the requested range lies in
\* exactly one emitted window
C34_NoSourceUnplanned_AsStated ==
    Planned => \A t \in PlanSourceInstants : Cardinality(PlanWindowsOf(t)) = 1

(***************************************************************************)
(* The router's cache under concurrent callers                             *)
(***************************************************************************)
\* what a Get of key answers on a router nobody else uses: the ring lookup on a
\* ConsistentHash fresh from NewConsistentHash
SequentialGet(nodeTotal, hashKeyScheme, key) ==
    RingLookup(NewConsistentHash(nodeTotal, hashKeyScheme), key)

\* SequentialGet for every router and key of the specification, computed once
SequentialIndex ==
    [n \in 1..MaxNodes, scheme \in Schemes, key \in RoutingKeys |->
        SequentialGet(n, scheme, key)]

\* C36: under every interleaving of the Load and Store steps of several callers on a
\* shared router, every Get returns the index a sequential ring lookup of its key returns,
\* a call between its Load and its Store holds that index, and no step changes or removes
\* an entry the cache holds.
C36_ConcurrentCache ==
    /\ [](/\ \A x \in returned :
                x[3] = SequentialIndex[routers[x[1]].nodeTotal, routers[x[1]].hashKey, x[2]]
          /\ \A c \in Callers :
                calls[c].pc = "store" =>
                    calls[c].idx = SequentialIndex[routers[calls[c].r].nodeTotal,
                                                   routers[calls[c].r].hashKey, calls[c].key])
    /\ [][\A r \in Routers :
             routers[r].made =>
                 \A k \in DOMAIN routers[r].ch.cache :
                     /\ k \in DOMAIN routers'[r].ch.cache
                     /\ routers'[r].ch.cache[k] = routers[r].ch.cache[k]]_vars

\* two callers missed the same key on the same router; one has stored and returned, the
\* other is about to store over that entry, and the cache holds a second key as well
C36_Witness ==
    \E c \in Callers :
        /\ calls[c].pc = "store"
        /\ calls[c].key \in DOMAIN routers[calls[c].r].ch.cache
        /\ <<calls[c].r, calls[c].key, calls[c].idx, FALSE>> \in returned
        /\ \E k \in DOMAIN routers[calls[c].r].ch.cache :
              routers[calls[c].r].ch.cache[k] # calls[c].idx

(***************************************************************************)
(* The range of the router                                                 *)
(***************************************************************************)
\* one caller asks one router, built from every N in 1..MaxNodes and every scheme, for
\* the exporter's keys and for the empty key
NextGet ==
    \/ NewRouter(1) /\ UNCHANGED <<plan, rpm, sg, xfer, dt, cp, stpl, tcmd, rel, opn>>
    \/ \E key \in GetKeys :
          GetLoad(1, 1, key) /\ UNCHANGED <<plan, rpm, sg, xfer, dt, cp, stpl, tcmd, rel, opn>>
    \/ GetStore(1) /\ UNCHANGED <<plan, rpm, sg, xfer, dt, cp, stpl, tcmd, rel, opn>>

SpecGet == InitHash /\ [][NextGet]_vars

\* C37: on a router of N >= 1 nodes under every accepted scheme, every index a Get
\* returned, every index a call holds between its Load and its Store and every cache
\* entry lies in 0..N-1, for the exporter's keys and for the empty key.
C37_RoutingRange ==
    /\ \A x \in returned : x[3] \in 0..(routers[x[1]].nodeTotal - 1)
    /\ \A c \in Callers :
          calls[c].pc = "store" => calls[c].idx \in 0..(routers[calls[c].r].nodeTotal - 1)
    /\ \A r \in Routers :
          routers[r].made =>
              \A k \in DOMAIN routers[r].ch.cache :
                  routers[r].ch.cache[k] \in 0..(routers[r].nodeTotal - 1)

\* on a router of more than one node, Get has answered the empty key from the ring and
\* from the cache, and has answered another key with the last node's index
C37_Witness ==
    \E r \in Routers :
        /\ routers[r].nodeTotal > 1
        /\ \E i \in 0..(routers[r].nodeTotal - 1) :
              <<r, <<>>, i, FALSE>> \in returned /\ <<r, <<>>, i, TRUE>> \in returned
        /\ \E x \in returned : x[1] = r /\ x[2] # <<>> /\ x[3] = routers[r].nodeTotal - 1

(***************************************************************************)
(* The default shard key and the size of the render buffer                 *)
(***************************************************************************)
\* C38: the key GetKey renders from the template parsed from "%db,%mm" is the key the
\* fixed-format hash.GetKey builds from the same database and measurement, whatever the
\* two values hold
C38_DefaultKeyEquivalence ==
    (stpl.tpl = DefaultShardKey /\ stpl.call.fn = "GetKey") =>
        stpl.call.key = GetKey(stpl.call.vars[1], stpl.call.vars[2])

\* GetKey on the default template with a database named %mm and a measurement named %db:
\* the key is "%mm,%db"
C38_Witness ==
    /\ stpl.tpl = DefaultShardKey
    /\ stpl.call.fn = "GetKey"
    /\ stpl.call.vars = <<ShardKeyVarMm, ShardKeyVarDb>>
    /\ stpl.call.key = ShardKeyVarMm \o <<",">> \o ShardKeyVarDb

\* C39: the capacity GetKey and GetKeyV2 pass to Grow is the length of the key they render,
\* and so is not negative, for every template and all values
C39_RenderBufferSize ==
    stpl.call.fn \in {"GetKey", "GetKeyV2"} =>
        /\ stpl.call.grow = Len(stpl.call.key)
        /\ stpl.call.grow >= 0

\* GetKey with the empty measurement on a template that holds %mm twice: the buffer is
\* shorter than the template
C39_Witness ==
    /\ stpl.call.fn = "GetKey"
    /\ stpl.freq[ShardKeyVarMm] = 2
    /\ stpl.call.vars[2] = <<>>
    /\ Len(stpl.call.vars[1]) < Len(ShardKeyVarDb)
    /\ stpl.call.grow < Len(stpl.tpl) - Len(ShardKeyVarMm)

(***************************************************************************)
(* compact: openFiles.  The loop over sc.tsm opens each segment and starts *)
(* a goroutine for it; a goroutine takes a place of the limiter, reads the *)
(* segment, and sends its result on the unbuffered channel readerC; the    *)
(* second loop receives one result per segment.                            *)
(***************************************************************************)
\* most segments of a shard
MaxSegments == 3

\* runtime.GOMAXPROCS(0), the places of the limiter
GoMaxProcs == {1, 2}

\* the goroutine of a segment that has not been started
NoOpener == [pc |-> "none", res |-> ""]

InitOpn ==
    /\ \E n \in 1..MaxSegments, procs \in GoMaxProcs :
          opn = [pc |-> "start", n |-> n, i |-> 0, lim |-> procs, taken |-> 0,
                 g |-> [k \in 1..MaxSegments |-> NoOpener], got |-> 0, readers |-> 0,
                 badTSM |-> [k \in 1..n |-> FALSE], closed |-> FALSE, err |-> ""]
    /\ plan = PlanIdle
    /\ rpm = RpmIdle
    /\ sg = SgIdle
    /\ xfer = XferIdle
    /\ HashIdle
    /\ dt = DtIdle
    /\ cp = CpIdle
    /\ stpl = TplIdle
    /\ tcmd = CmdIdle
    /\ rel = RelIdle

OpnOthers == <<plan, rpm, sg, xfer, routers, calls, returned, dt, cp, stpl, tcmd, rel>>

\* one turn of the first loop: os.OpenFile, and on success go func(idx, file)
OpnStart(fails) ==
    /\ opn.pc = "start"
    /\ opn' = IF fails
              THEN [opn EXCEPT !.pc = "returned", !.err = "failed to open file"]
              ELSE [opn EXCEPT !.i = @ + 1, !.g[opn.i + 1].pc = "take",
                               !.pc = IF opn.i + 1 = opn.n THEN "recv" ELSE "start"]
    /\ UNCHANGED OpnOthers

\* lim.Take()
OpnTake(k) ==
    /\ opn.g[k].pc = "take"
    /\ opn.taken < opn.lim
    /\ opn' = [opn EXCEPT !.g[k].pc = "read", !.taken = @ + 1]
    /\ UNCHANGED OpnOthers

\* tsm1.NewTSMReader(file), and os.Remove of a corrupt file
OpnRead(k, outcome) ==
    /\ opn.g[k].pc = "read"
    /\ opn' = [opn EXCEPT !.g[k] = [pc |-> "send", res |-> outcome],
                          !.badTSM[k] = (outcome = "corrupt")]
    /\ UNCHANGED OpnOthers

\* the end of the second loop: close(readerC), the good segments
OpnTail(o) ==
    [o EXCEPT !.pc = "returned", !.closed = TRUE,
              !.err = IF \A k \in 1..o.n : o.badTSM[k] THEN "no good tsm files" ELSE ""]

\* readerC <- res in goroutine k meets res := <-readerC in the second loop; the goroutine
\* returns and its deferred lim.Release() runs; the loop looks at the result
OpnDeliver(k) ==
    /\ opn.g[k].pc = "send"
    /\ opn.pc = "recv"
    /\ LET done == [opn EXCEPT !.g[k].pc = "done", !.taken = @ - 1]
       IN  opn' =
             IF opn.g[k].res = "unremovable"
             THEN [done EXCEPT !.pc = "returned", !.err = "cannot remove corrupt file"]
             ELSE LET next == [done EXCEPT !.got = @ + 1,
                                           !.readers = IF opn.g[k].res = "ok"
                                                       THEN @ + 1 ELSE @]
                  IN  IF next.got = next.n THEN OpnTail(next) ELSE next
    /\ UNCHANGED OpnOthers

\* the steps of goroutine k
OpnGoroutine(k) ==
    \/ OpnTake(k)
    \/ \E outcome \in {"ok", "corrupt", "unremovable"} : OpnRead(k, outcome)
    \/ OpnDeliver(k)

NextOpn ==
    \/ \E fails \in BOOLEAN : OpnStart(fails)
    \/ \E k \in DOMAIN opn.g : OpnTake(k)
    \/ \E k \in DOMAIN opn.g, outcome \in {"ok", "corrupt", "unremovable"} : OpnRead(k, outcome)
    \/ \E k \in DOMAIN opn.g : OpnDeliver(k)

SpecOpn == InitOpn /\ [][NextOpn]_vars

\* the Go scheduler runs every goroutine that can take a step
SpecOpnLive ==
    /\ InitOpn /\ [][NextOpn]_vars
    /\ WF_vars(\E fails \in BOOLEAN : OpnStart(fails))
    /\ \A k \in 1..MaxSegments : WF_vars(OpnGoroutine(k))

\* C40 as stated: every opener goroutine that was started delivers its result, releases
\* the limiter and terminates, whatever openFiles returns
C40_OpenersTerminate_AsStated ==
    \A k \in 1..MaxSegments :
        (opn.g[k].pc # "none") ~> (opn.g[k].pc = "done")

\* openFiles has returned and a goroutine waits to send on readerC, which nobody receives
\* from any more
OpnBlockedForever ==
    /\ opn.pc = "returned"
    /\ \E k \in DOMAIN opn.g : opn.g[k].pc = "send"

====
